---------------------------- MODULE Spec2Model ----------------------------
(***************************************************************************)
(* A model of the column/language normalization and merge engine of the    *)
(* ODK XLSForm agent (src/agent.py).                                        *)
(*                                                                         *)
(* Python strings are TLA+ strings, taken apart with Len, SubSeq and \o.   *)
(* A Python dict (a row) is a sequence of <<key, value>> pairs with        *)
(* pairwise distinct keys, in insertion order.  Python's None is the       *)
(* value None below.  The pure functions of the source are operators of    *)
(* the same name; each specification draws inputs from bounded sets and    *)
(* has one action per call.                                                *)
(***************************************************************************)
EXTENDS Integers, Sequences, FiniteSets, TLC

VARIABLES
    pc,              \* position of the caller: which call has been made
    language,        \* _normalize_language_tag: the input string
    entry,           \* _normalize_language_tag: the returned dict
    languages,       \* _normalize_languages: the input list
    normalized,      \* _normalize_languages: the returned list
    sheet_name,      \* _prepare_sheet: the sheet's name
    columns,         \* the column list handed to the orderer or the normalizer
    sheet_rows,      \* _normalize_language_columns_and_rows: the row list
    once,            \* the normalizer's result on columns and rows
    twice,           \* the normalizer's result on its own result
    ordered,         \* the orderer's result
    reordered,       \* the orderer's result on its own result
    base_spec,       \* merge_form_spec: the base sheets
    addition_spec,   \* merge_form_spec: the addition's sheets
    dedupe_by_name,  \* merge_form_spec: the flag
    merged_spec,     \* merge_form_spec: result["merged_spec"]["sheets"]
    summary,         \* merge_form_spec: result["summary"]
    heap,            \* the row dicts that the row lists refer to, by address
    heap_before,     \* the heap when the call was made
    form_spec,       \* the caller's form_spec argument
    args,            \* the other arguments of the call
    returned,        \* what the call returned or raised
    workbook,        \* write_xlsform: the sheets of the workbook it saved
    normalized_sheets, \* write_xlsform: the prepared (columns, rows) per sheet
    cache_file,      \* the file at _TEMPLATE_CACHE_PATH: whether it exists, its blocks
    callers          \* concurrent calls of write_xlsform: position and locals

langVars == <<language, entry, languages, normalized>>
orderVars == <<sheet_name, columns, ordered, reordered>>
mergeVars == <<base_spec, addition_spec, dedupe_by_name, merged_spec, summary>>
normVars == <<sheet_rows, once, twice>>
toolVars == <<heap, heap_before, form_spec, args, returned, workbook, normalized_sheets>>
cacheVars == <<cache_file, callers>>
vars == <<pc, langVars, orderVars, mergeVars, normVars, toolVars, cacheVars>>

(***************************************************************************)
(* Strings                                                                 *)
(***************************************************************************)

\* Python's None (a value that is no string of the inputs).
None == "<None>"

\* s[i] of a Python string, 1-based.
Char(s, i) == SubSeq(s, i, i)

UpperChars == "ABCDEFGHIJKLMNOPQRSTUVWXYZ"
LowerChars == "abcdefghijklmnopqrstuvwxyz"
DigitChars == "0123456789"

CharsOf(s) == {Char(s, i) : i \in 1..Len(s)}

UpperSet == CharsOf(UpperChars)
LetterSet == UpperSet \cup CharsOf(LowerChars)
AlnumSet == LetterSet \cup CharsOf(DigitChars)

\* ch.lower() for one character.
LowerOf == [c \in UpperSet |->
              Char(LowerChars, CHOOSE i \in 1..26 : Char(UpperChars, i) = c)]
LowerChar(c) == IF c \in UpperSet THEN LowerOf[c] ELSE c

\* str.lower()
RECURSIVE Lower(_)
Lower(s) == IF s = "" THEN "" ELSE LowerChar(Char(s, 1)) \o Lower(Tail(s))

\* ch.isalnum()
IsAlnum(c) == c \in AlnumSet

\* Whitespace (\s of re, and what str.strip() removes): the inputs hold spaces only.
IsSpace(c) == c = " "

RECURSIVE LStrip(_)
LStrip(s) == IF s # "" /\ IsSpace(Char(s, 1)) THEN LStrip(Tail(s)) ELSE s

RECURSIVE RStrip(_)
RStrip(s) ==
    IF s # "" /\ IsSpace(Char(s, Len(s))) THEN RStrip(SubSeq(s, 1, Len(s) - 1)) ELSE s

\* str.strip()
Strip(s) == RStrip(LStrip(s))

\* str.startswith(prefix)
StartsWith(s, prefix) ==
    Len(s) >= Len(prefix) /\ SubSeq(s, 1, Len(prefix)) = prefix

\* The rest of s after its first n characters.
Drop(s, n) == SubSeq(s, n + 1, Len(s))

\* The elements of a sequence, as a set.
Range(s) == {s[i] : i \in DOMAIN s}

(***************************************************************************)
(* Language tables (src/agent.py:61-114)                                   *)
(***************************************************************************)

\* _CANONICAL_LANGUAGE_CODES, in the order of the source.
_CANONICAL_LANGUAGE_CODES ==
    << <<"Arabic", "ar">>, <<"Bengali", "bn">>, <<"Bulgarian", "bg">>,
       <<"Chinese", "zh">>, <<"Croatian", "hr">>, <<"Czech", "cs">>,
       <<"Danish", "da">>, <<"Dutch", "nl">>, <<"English", "en">>,
       <<"Finnish", "fi">>, <<"French", "fr">>, <<"German", "de">>,
       <<"Greek", "el">>, <<"Hebrew", "he">>, <<"Hindi", "hi">>,
       <<"Hungarian", "hu">>, <<"Indonesian", "id">>, <<"Italian", "it">>,
       <<"Japanese", "ja">>, <<"Korean", "ko">>, <<"Malay", "ms">>,
       <<"Norwegian", "no">>, <<"Persian", "fa">>, <<"Polish", "pl">>,
       <<"Portuguese", "pt">>, <<"Romanian", "ro">>, <<"Russian", "ru">>,
       <<"Serbian", "sr">>, <<"Somali", "so">>, <<"Spanish", "es">>,
       <<"Swahili", "sw">>, <<"Swedish", "sv">>, <<"Thai", "th">>,
       <<"Turkish", "tr">>, <<"Ukrainian", "uk">>, <<"Urdu", "ur">>,
       <<"Vietnamese", "vi">> >>

\* The aliases added by _LANGUAGE_CODE_MAP.update(...).
LanguageAliases ==
    << <<"farsi", "fa">>, <<"filipino", "fil">>, <<"kiswahili", "sw">>,
       <<"mandarin", "zh">>, <<"pashto", "ps">>, <<"swahili", "sw">>,
       <<"tagalog", "tl">> >>

\* dict lookup in a list of <<key, value>> pairs where a later pair overrides
\* an earlier one (dict comprehension, then update).
HasKey(pairs, k) == \E i \in DOMAIN pairs : pairs[i][1] = k
IndicesOf(pairs, k) == {i \in DOMAIN pairs : pairs[i][1] = k}
LastValue(pairs, k) ==
    LET at == IndicesOf(pairs, k)
    IN pairs[CHOOSE i \in at : \A j \in at : j <= i][2]
\* dict lookup where the first pair wins (setdefault).
FirstValue(pairs, k) ==
    LET at == IndicesOf(pairs, k)
    IN pairs[CHOOSE i \in at : \A j \in at : i <= j][2]

\* _LANGUAGE_CODE_MAP: lower-cased names, then the aliases.
_LANGUAGE_CODE_MAP ==
    [i \in DOMAIN _CANONICAL_LANGUAGE_CODES |->
        <<Lower(_CANONICAL_LANGUAGE_CODES[i][1]), _CANONICAL_LANGUAGE_CODES[i][2]>>]
    \o LanguageAliases

\* _CODE_TO_NAME: code -> name, the first name of a code wins.
_CODE_TO_NAME ==
    [i \in DOMAIN _CANONICAL_LANGUAGE_CODES |->
        <<_CANONICAL_LANGUAGE_CODES[i][2], _CANONICAL_LANGUAGE_CODES[i][1]>>]

\* _CODE_TO_NAME.get(code, default)
CodeToName(code, default) ==
    IF HasKey(_CODE_TO_NAME, code) THEN FirstValue(_CODE_TO_NAME, code) ELSE default

(***************************************************************************)
(* Language Tag Resolver (src/agent.py:135-176)                            *)
(***************************************************************************)

\* re.match(r"^(.*?)(?:\s*\(([^)]+)\))\s*$", lang) on a stripped string: the
\* string ends with ")", and the group starts at the first "(" that is
\* followed by one or more characters other than ")" up to that last ")".
\* The lazy (.*?) makes the first such "(" the match; the spaces before it
\* belong to \s* or to the name, which is stripped either way.
ParenStarts(lang) ==
    {j \in 1..(Len(lang) - 2) :
        /\ Char(lang, j) = "("
        /\ Char(lang, Len(lang)) = ")"
        /\ \A k \in (j + 1)..(Len(lang) - 1) : Char(lang, k) # ")"}

ParenMatches(lang) == ParenStarts(lang) # {}

ParenStart(lang) ==
    CHOOSE j \in ParenStarts(lang) : \A k \in ParenStarts(lang) : j <= k

\* re.fullmatch(r"[a-zA-Z]{2,3}(?:-[a-zA-Z0-9]{2,8})*", lang)
RECURSIVE SubtagsMatch(_)
SubtagsMatch(s) ==
    \/ s = ""
    \/ /\ Char(s, 1) = "-"
       /\ \E n \in 2..8 :
            /\ Len(s) >= n + 1
            /\ \A i \in 2..(n + 1) : IsAlnum(Char(s, i))
            /\ SubtagsMatch(Drop(s, n + 1))

LooksLikeCode(lang) ==
    \E n \in 2..3 :
        /\ Len(lang) >= n
        /\ \A i \in 1..n : Char(lang, i) \in LetterSet
        /\ SubtagsMatch(Drop(lang, n))

\* "".join(ch.lower() for ch in lang if ch.isalnum() or ch == "-")
RECURSIVE SafeChars(_)
SafeChars(s) ==
    IF s = "" THEN ""
    ELSE (IF IsAlnum(Char(s, 1)) \/ Char(s, 1) = "-" THEN LowerChar(Char(s, 1)) ELSE "")
         \o SafeChars(Tail(s))

Tag(name, code) == [header |-> name \o "(" \o code \o ")", code |-> code, name |-> name]

\* A resolution of "<name> (<code>)" that keeps the letter case of the code.
ParenTagKeepsCase(lang) ==
    LET j == ParenStart(lang)
        rawName == Strip(SubSeq(lang, 1, j - 1))
        code == Strip(SubSeq(lang, j + 1, Len(lang) - 1))
    IN Tag(IF rawName # "" THEN rawName ELSE CodeToName(code, code), code)

\* The branch of _normalize_language_tag for "<name> (<code>)".
ParenTag(lang) ==
    LET j == ParenStart(lang)
        rawName == Strip(SubSeq(lang, 1, j - 1))
        normalized_code == Lower(Strip(SubSeq(lang, j + 1, Len(lang) - 1)))
        name == IF rawName # "" THEN rawName
                ELSE CodeToName(normalized_code, normalized_code)
    IN Tag(name, normalized_code)

_normalize_language_tag(lang0) ==
    LET lang == Strip(IF lang0 = None THEN "" ELSE lang0)
        key == Lower(lang)
    IN IF lang = "" THEN [header |-> "", code |-> "", name |-> ""]
       ELSE IF ParenMatches(lang) THEN ParenTag(lang)
       ELSE IF HasKey(_LANGUAGE_CODE_MAP, key)
            THEN LET code == LastValue(_LANGUAGE_CODE_MAP, key)
                 IN Tag(CodeToName(code, lang), code)
       ELSE IF LooksLikeCode(lang) THEN Tag(CodeToName(Lower(lang), lang), Lower(lang))
       ELSE LET safe == SafeChars(lang)
            IN Tag(lang, IF safe = "" THEN "und" ELSE safe)

\* A loop that keeps every entry of a non-empty header.
RECURSIVE NormalizeLanguagesKeepAll(_, _)
NormalizeLanguagesKeepAll(langs, acc) ==
    IF langs = <<>> THEN acc
    ELSE LET e == _normalize_language_tag(Head(langs))
         IN NormalizeLanguagesKeepAll(Tail(langs),
                IF e.header # "" THEN Append(acc, e) ELSE acc)

\* The loop body of _normalize_languages: keep the entry of a header not seen yet.
RECURSIVE NormalizeLanguagesFrom(_, _)
NormalizeLanguagesFrom(langs, acc) ==
    IF langs = <<>> THEN acc
    ELSE LET e == _normalize_language_tag(Head(langs))
             seen_headers == {acc[i].header : i \in DOMAIN acc}
         IN NormalizeLanguagesFrom(Tail(langs),
                IF e.header # "" /\ e.header \notin seen_headers
                THEN Append(acc, e) ELSE acc)

_normalize_languages(langs) == NormalizeLanguagesFrom(langs, <<>>)

(***************************************************************************)
(* The resolver's callers                                                  *)
(***************************************************************************)

MaxLanguages == 2

\* str.upper(), used to spell the inputs only.
RECURSIVE Upper(_)
Upper(s) ==
    IF s = "" THEN ""
    ELSE (IF Char(s, 1) \in CharsOf(LowerChars)
          THEN Char(UpperChars, CHOOSE i \in 1..26 : Char(LowerChars, i) = Char(s, 1))
          ELSE Char(s, 1)) \o Upper(Tail(s))

\* The ways the claims spell a canonical language: "<Name> (<code>)", the bare
\* name in three letter cases, the bare code in two.
CanonicalSpellings(name, code) ==
    {name \o " (" \o code \o ")", name \o "(" \o code \o ")",
     name, Lower(name), Upper(name), code, Upper(code)}

\* Free text that is no "<name> (<code>)", no known name and no subtag, with the
\* code expected for it.
UnrecognizedInputs ==
    {<<"Klingon", "klingon">>, <<" Klingon ", "klingon">>,
     <<"Old Norse!", "oldnorse">>, <<"!!", "und">>, <<"Haitian-Creole", "haitian-creole">>}

\* The spellings of each canonical language, by its place in the table.
SpellingsOf ==
    [i \in DOMAIN _CANONICAL_LANGUAGE_CODES |->
        CanonicalSpellings(_CANONICAL_LANGUAGE_CODES[i][1], _CANONICAL_LANGUAGE_CODES[i][2])]

LanguageInputs ==
    {"", "  ", None}
    \cup UNION {SpellingsOf[i] : i \in DOMAIN _CANONICAL_LANGUAGE_CODES}
    \cup {u[1] : u \in UnrecognizedInputs}
    \cup {"(fr)", "French (FR)", "fr (fr)", "zh-Hant", "xx", "filipino", "Mandarin",
          "English ( )"}

\* The inputs that the lists are made of.
ListInputs == {"", "fr", "French (fr)", "FRENCH", "English", "Klingon", "french (fr)"}

RECURSIVE SeqsUpTo(_, _)
SeqsUpTo(S, n) ==
    IF n = 0 THEN {<<>>}
    ELSE LET shorter == SeqsUpTo(S, n - 1)
         IN shorter \cup {Append(s, x) : s \in shorter, x \in S}

NoEntry == [header |-> None, code |-> None, name |-> None]

\* The variables of the calls a specification does not make.
LangIdle == language = None /\ entry = NoEntry /\ languages = <<>> /\ normalized = <<>>
OrderIdle == sheet_name = None /\ columns = <<>> /\ ordered = <<>> /\ reordered = <<>>
NormIdle == sheet_rows = <<>> /\ once = <<>> /\ twice = <<>>
ToolIdle ==
    /\ heap = <<>>
    /\ heap_before = <<>>
    /\ form_spec = <<>>
    /\ args = <<>>
    /\ returned = <<>>
    /\ workbook = <<>>
    /\ normalized_sheets = <<>>

CacheIdle == cache_file = <<>> /\ callers = <<>>
MergeIdle ==
    /\ base_spec = <<>>
    /\ addition_spec = <<>>
    /\ dedupe_by_name = TRUE
    /\ merged_spec = <<>>
    /\ summary = <<>>

InitLang ==
    /\ pc = "start"
    /\ CacheIdle
    /\ language = None
    /\ entry = NoEntry
    /\ languages \in SeqsUpTo(ListInputs, MaxLanguages)
    /\ normalized = <<>>
    /\ OrderIdle
    /\ MergeIdle
    /\ NormIdle
    /\ ToolIdle

\* A call _normalize_language_tag(x).
ResolveTag ==
    /\ pc = "start"
    /\ \E x \in LanguageInputs :
        /\ language' = x
        /\ entry' = _normalize_language_tag(x)
    /\ pc' = "resolved"
    /\ UNCHANGED <<languages, normalized, orderVars, mergeVars, normVars, toolVars, cacheVars>>

\* A call _normalize_languages(languages).
ResolveList ==
    /\ pc = "start"
    /\ normalized' = _normalize_languages(languages)
    /\ pc' = "listed"
    /\ UNCHANGED <<language, entry, languages, orderVars, mergeVars, normVars, toolVars, cacheVars>>

NextLang == ResolveTag \/ ResolveList

SpecLang == InitLang /\ [][NextLang]_vars

(***************************************************************************)
(* Claims about the Language Tag Resolver                                  *)
(***************************************************************************)

EmptyTag == [header |-> "", code |-> "", name |-> ""]

IsBlankInput(x) == x = None \/ Strip(x) = ""

\* C5: language resolution is canonical and total.  "<Name> (<code>)", the bare
\* name in any letter case and the bare code of one canonical language all
\* resolve to the header "Name(code)"; unrecognized free text resolves to
\* "<trimmed input>(<sanitized lowercase code>)"; blank input resolves to the
\* all-empty triple; the code is always lowercase.
C5_ResolutionCanonical ==
    pc = "resolved" =>
        /\ \A i \in DOMAIN _CANONICAL_LANGUAGE_CODES :
            LET name == _CANONICAL_LANGUAGE_CODES[i][1]
                code == _CANONICAL_LANGUAGE_CODES[i][2]
            IN language \in SpellingsOf[i] =>
                entry = [header |-> name \o "(" \o code \o ")",
                         code |-> code, name |-> name]
        /\ \A u \in UnrecognizedInputs :
            language = u[1] =>
                entry = [header |-> Strip(u[1]) \o "(" \o u[2] \o ")",
                         code |-> u[2], name |-> Strip(u[1])]
        /\ IsBlankInput(language) => entry = EmptyTag
        /\ ~IsBlankInput(language) => entry.header # ""
        /\ entry.code = Lower(entry.code)

C5_Witness ==
    /\ pc = "resolved"
    /\ language = "FRENCH"
    /\ entry.header = "French(fr)"

\* The index of the first occurrence of x in s.
FirstIndex(s, x) == CHOOSE i \in DOMAIN s : s[i] = x /\ \A j \in 1..(i - 1) : s[j] # x

\* C6: resolving a list yields entries with pairwise distinct, non-empty
\* headers, in the order of each header's first occurrence in the input; an
\* input resolving to a header seen before, or to the empty header, is dropped.
C6_ListDedup ==
    pc = "listed" =>
        LET hs == [i \in DOMAIN languages |-> _normalize_language_tag(languages[i]).header]
            out == [i \in DOMAIN normalized |-> normalized[i].header]
        IN /\ \A i \in DOMAIN out : out[i] # ""
           /\ \A i, j \in DOMAIN out : i # j => out[i] # out[j]
           /\ Range(out) = Range(hs) \ {""}
           /\ \A i, j \in DOMAIN out :
                i < j => FirstIndex(hs, out[i]) < FirstIndex(hs, out[j])
           /\ \A i \in DOMAIN out :
                normalized[i] = _normalize_language_tag(languages[FirstIndex(hs, out[i])])

C6_Witness ==
    /\ pc = "listed"
    /\ languages = <<"fr", "French (fr)">>
    /\ Len(normalized) = 1

(***************************************************************************)
(* Python dicts: sequences of <<key, value>> pairs, keys pairwise distinct  *)
(***************************************************************************)

\* Op applied to the value of v, which is worked out once.
Bind(v, Op(_)) == CHOOSE r \in {Op(x) : x \in {v}} : TRUE

Keys(d) == {d[i][1] : i \in DOMAIN d}

\* d.get(k): None when the key is absent.
Get(d, k) ==
    IF \E i \in DOMAIN d : d[i][1] = k
    THEN d[CHOOSE i \in DOMAIN d : d[i][1] = k][2]
    ELSE None

\* d[k] = v: an existing key keeps its place, a new key goes last.
Put(d, k, v) ==
    IF k \in Keys(d)
    THEN [i \in DOMAIN d |-> IF d[i][1] = k THEN <<k, v>> ELSE d[i]]
    ELSE Append(d, <<k, v>>)

\* d.pop(k, None)
Pop(d, k) == SelectSeq(d, LAMBDA e : e[1] # k)

\* The dict as a mapping (== of two dicts ignores the insertion order).
AsMap(d) == Range(d)

\* Python truthiness of a cell value (None and "" are falsy).
Truthy(v) == v \notin {None, ""}

\* list.extend(c for c in cols if c not in acc): the generator reads the list
\* as it grows, so a column is appended once.
RECURSIVE ExtendUnseen(_, _)
ExtendUnseen(acc, cols) ==
    IF cols = <<>> THEN acc
    ELSE ExtendUnseen(IF Head(cols) \in Range(acc) THEN acc ELSE Append(acc, Head(cols)),
                      Tail(cols))

(***************************************************************************)
(* Column Orderer (src/agent.py:18-53, 853-871)                            *)
(***************************************************************************)

_PREFERRED_COLUMN_ORDER ==
    << <<"survey",
         <<"type", "name", "label", "hint", "required", "relevant", "appearance",
           "default", "constraint", "constraint_message", "calculation",
           "choice_filter", "repeat_count", "autoplay", "image", "audio", "video">> >>,
       <<"choices", <<"list_name", "name", "label", "choice_filter">> >>,
       <<"settings",
         <<"form_title", "form_id", "default_language", "version", "public_key",
           "submission_url", "instance_name">> >> >>

\* _PREFERRED_COLUMN_ORDER.get(sheet_name.lower()); <<>> stands for None.
Preferred(name) ==
    LET key == Lower(name)
    IN IF HasKey(_PREFERRED_COLUMN_ORDER, key)
       THEN FirstValue(_PREFERRED_COLUMN_ORDER, key) ELSE <<>>

\* The loop over the preferred columns of _prepare_sheet: a preferred column
\* that is present is placed, then the columns starting with "<pref_col>::"
\* that are not placed yet, in their order in the column list.
RECURSIVE PlacePreferred(_, _, _)
PlacePreferred(preferred, cols, acc) ==
    IF preferred = <<>> THEN acc
    ELSE LET pref_col == Head(preferred)
             withBase == IF pref_col \in Range(cols) /\ pref_col \notin Range(acc)
                         THEN Append(acc, pref_col) ELSE acc
             lang_variants ==
                 SelectSeq(cols, LAMBDA c : StartsWith(c, pref_col \o "::")
                                            /\ c \notin Range(withBase))
         IN PlacePreferred(Tail(preferred), cols, withBase \o lang_variants)

\* An ordering that returns the placed columns only.
OrderColumnsPlacedOnly(name, cols) ==
    LET preferred == Preferred(name)
    IN IF preferred = <<>> THEN cols ELSE PlacePreferred(preferred, cols, <<>>)

\* The ordering of _prepare_sheet (lines 853-871): the placed columns, then the
\* columns not placed, in their order.
OrderColumns(name, cols) ==
    LET preferred == Preferred(name)
    IN IF preferred = <<>> THEN cols
       ELSE LET placed == PlacePreferred(preferred, cols, <<>>)
            IN placed \o SelectSeq(cols, LAMBDA c : c \notin Range(placed))

MaxOrderColumns == 3

OrderSheetNames == {"survey", "Survey", "choices", "settings", "notes"}

OrderColumnInputs ==
    {"type", "name", "label", "label::English(en)", "label::French(fr)",
     "hint::English(en)", "constraint_message", "form_title", "note_x"}

\* The duplicate-free lists of at most n elements of S.
DistinctSeqsUpTo(S, n) ==
    {s \in SeqsUpTo(S, n) : \A i, j \in DOMAIN s : i # j => s[i] # s[j]}

InitOrder ==
    /\ pc = "start"
    /\ CacheIdle
    /\ sheet_name \in OrderSheetNames
    /\ columns \in DistinctSeqsUpTo(OrderColumnInputs, MaxOrderColumns)
    /\ ordered = <<>>
    /\ reordered = <<>>
    /\ LangIdle
    /\ MergeIdle
    /\ NormIdle
    /\ ToolIdle

\* The ordering step of _prepare_sheet on the sheet's columns.
Order ==
    /\ pc = "start"
    /\ ordered' = OrderColumns(sheet_name, columns)
    /\ pc' = "ordered"
    /\ UNCHANGED <<sheet_name, columns, reordered, langVars, mergeVars, normVars, toolVars, cacheVars>>

\* The ordering step again, on the columns it returned (the next write of the
\* same sheet).
OrderAgain ==
    /\ pc = "ordered"
    /\ reordered' = OrderColumns(sheet_name, ordered)
    /\ pc' = "reordered"
    /\ UNCHANGED <<sheet_name, columns, ordered, langVars, mergeVars, normVars, toolVars, cacheVars>>

NextOrder == Order \/ OrderAgain

SpecOrder == InitOrder /\ [][NextOrder]_vars

\* s is a rearrangement of the duplicate-free list t.
IsPermutation(s, t) ==
    /\ Len(s) = Len(t)
    /\ Range(s) = Range(t)
    /\ \A i, j \in DOMAIN s : i # j => s[i] # s[j]

\* C10: order stability.  The ordering applied when a sheet is written is a
\* permutation of its duplicate-free input columns, applying it to its own
\* result changes nothing, and a sheet without a preferred-order entry is
\* returned unchanged.
C10_OrderStable ==
    /\ pc \in {"ordered", "reordered"} =>
        /\ IsPermutation(ordered, columns)
        /\ ~HasKey(_PREFERRED_COLUMN_ORDER, Lower(sheet_name)) => ordered = columns
    /\ pc = "reordered" => reordered = ordered

C10_Witness ==
    /\ pc = "reordered"
    /\ columns = <<"note_x", "label::French(fr)", "type">>
    /\ sheet_name = "Survey"
    /\ ordered = <<"type", "label::French(fr)", "note_x">>

(***************************************************************************)
(* Sheet Merger (src/agent.py:615-670)                                     *)
(*                                                                         *)
(* A normalized form spec is a dict sheet name -> [columns, rows]; the     *)
(* summary is a dict sheet name -> [added, skipped].                       *)
(***************************************************************************)

Sheet(cols, rows) == [columns |-> cols, rows |-> rows]

\* {r.get("name") for r in base_rows if r.get("name")}
NamesOf(rows) == {Get(rows[i], "name") : i \in {j \in DOMAIN rows : Truthy(Get(rows[j], "name"))}}

\* A row loop that never adds the name of an appended row to existing_names.
RECURSIVE MergeRowsStaleNames(_, _, _)
MergeRowsStaleNames(extra_rows, dedupe, acc) ==
    IF extra_rows = <<>> THEN acc
    ELSE LET row == Head(extra_rows)
             name == Get(row, "name")
         IN MergeRowsStaleNames(Tail(extra_rows), dedupe,
                IF dedupe /\ Truthy(name) /\ name \in acc.existing_names
                THEN [acc EXCEPT !.skipped = Append(@, name)]
                ELSE [acc EXCEPT !.base_rows = Append(@, row),
                                 !.added = IF Truthy(name) THEN Append(@, name) ELSE @])

\* A row loop that skips a seen name whatever dedupe_by_name is.
RECURSIVE MergeRowsAlwaysDedupe(_, _, _)
MergeRowsAlwaysDedupe(extra_rows, dedupe, acc) ==
    IF extra_rows = <<>> THEN acc
    ELSE LET row == Head(extra_rows)
             name == Get(row, "name")
         IN MergeRowsAlwaysDedupe(Tail(extra_rows), dedupe,
                IF Truthy(name) /\ name \in acc.existing_names
                THEN [acc EXCEPT !.skipped = Append(@, name)]
                ELSE [base_rows |-> Append(acc.base_rows, row),
                      existing_names |-> IF Truthy(name)
                                         THEN acc.existing_names \cup {name}
                                         ELSE acc.existing_names,
                      added |-> IF Truthy(name) THEN Append(acc.added, name)
                                ELSE acc.added,
                      skipped |-> acc.skipped])

\* The row loop of merge_form_spec (lines 639-647).  acc holds base_rows,
\* existing_names, added and skipped.
RECURSIVE MergeRows(_, _, _)
MergeRows(extra_rows, dedupe, acc) ==
    IF extra_rows = <<>> THEN acc
    ELSE LET row == Head(extra_rows)
             name == Get(row, "name")
         IN MergeRows(Tail(extra_rows), dedupe,
                IF dedupe /\ Truthy(name) /\ name \in acc.existing_names
                THEN [acc EXCEPT !.skipped = Append(@, name)]
                ELSE [base_rows |-> Append(acc.base_rows, row),
                      existing_names |-> IF Truthy(name)
                                         THEN acc.existing_names \cup {name}
                                         ELSE acc.existing_names,
                      added |-> IF Truthy(name) THEN Append(acc.added, name)
                                ELSE acc.added,
                      skipped |-> acc.skipped])

\* The column union and ordering of merge_form_spec (lines 650-662).
MergeColumns(name, base_columns, extra_columns) ==
    LET cols == ExtendUnseen(base_columns, extra_columns)
        preferred == Preferred(name)
    IN IF preferred = <<>> THEN cols
       ELSE ExtendUnseen(SelectSeq(preferred, LAMBDA c : c \in Range(cols)), cols)

\* One pass of the loop over the addition's sheets (lines 632-665).
MergeSheet(base, sum, name, extra_sheet, dedupe) ==
    LET base_sheet == IF name \in Keys(base) THEN Get(base, name) ELSE Sheet(<<>>, <<>>)
        merged == MergeRows(extra_sheet.rows, dedupe,
                      [base_rows |-> base_sheet.rows,
                       existing_names |-> NamesOf(base_sheet.rows),
                       added |-> <<>>, skipped |-> <<>>])
        cols == MergeColumns(name, base_sheet.columns, extra_sheet.columns)
    IN [base |-> Put(base, name, Sheet(cols, merged.base_rows)),
        summary |-> Put(sum, name, [added |-> merged.added, skipped |-> merged.skipped])]

RECURSIVE MergeSheets(_, _, _, _)
MergeSheets(base, sum, extra, dedupe) ==
    IF extra = <<>> THEN [merged_spec |-> base, summary |-> sum]
    ELSE LET step == MergeSheet(base, sum, Head(extra)[1], Head(extra)[2], dedupe)
         IN MergeSheets(step.base, step.summary, Tail(extra), dedupe)

\* merge_form_spec on the sheets of two specs; it works on deep copies.
merge_form_spec(base, extra, dedupe) == MergeSheets(base, <<>>, extra, dedupe)

MaxBaseRows == 1
MaxAdditionRows == 2

MergeRowInputs ==
    {<< <<"type", "note">> >>,
     << <<"name", "">>, <<"type", "text">> >>,
     << <<"name", "age">>, <<"type", "integer">> >>,
     << <<"name", "age">>, <<"type", "text">> >>,
     << <<"name", "sex">> >>}

BaseColumnInputs ==
    {<<>>,
     <<"type", "name", "label::English(en)", "hint">>}

MergeColumnInputs ==
    {<<>>,
     <<"label::English(en)", "hint", "name">>,
     <<"extra", "label::English(en)", "extra">>}

MergeSheetNames == {"survey", "Choices", "notes"}

InitMerge ==
    /\ pc = "start"
    /\ CacheIdle
    /\ base_spec \in
        {<<>>} \cup
        {<< <<"survey", Sheet(c, r)>> >> :
            c \in BaseColumnInputs, r \in SeqsUpTo(MergeRowInputs, MaxBaseRows)}
    /\ addition_spec = <<>>
    /\ dedupe_by_name = TRUE
    /\ merged_spec = <<>>
    /\ summary = <<>>
    /\ LangIdle
    /\ OrderIdle
    /\ NormIdle
    /\ ToolIdle

\* A call merge_form_spec(base_spec, addition, dedupe_by_name=d).
Merge ==
    /\ pc = "start"
    /\ \E n \in MergeSheetNames, c \in MergeColumnInputs,
          r \in SeqsUpTo(MergeRowInputs, MaxAdditionRows), d \in BOOLEAN :
        LET addition == << <<n, Sheet(c, r)>> >>
            result == merge_form_spec(base_spec, addition, d)
        IN /\ addition_spec' = addition
           /\ dedupe_by_name' = d
           /\ merged_spec' = result.merged_spec
           /\ summary' = result.summary
    /\ pc' = "merged"
    /\ UNCHANGED <<base_spec, langVars, orderVars, normVars, toolVars, cacheVars>>

\* The caller merges the same addition again into the merged spec (the next
\* link of a chain of merges).
MergeAgain ==
    /\ pc = "merged"
    /\ \E d \in BOOLEAN :
        LET result == merge_form_spec(merged_spec, addition_spec, d)
        IN /\ base_spec' = merged_spec
           /\ dedupe_by_name' = d
           /\ merged_spec' = result.merged_spec
           /\ summary' = result.summary
    /\ pc' = "remerged"
    /\ UNCHANGED <<addition_spec, langVars, orderVars, normVars, toolVars, cacheVars>>

NextMerge == Merge \/ MergeAgain

SpecMerge == InitMerge /\ [][NextMerge]_vars

(***************************************************************************)
(* Claims about the Sheet Merger                                           *)
(***************************************************************************)

\* The sheet of a spec, empty when the spec has no such sheet.
SheetOf(spec, name) ==
    IF name \in Keys(spec) THEN Get(spec, name) ELSE Sheet(<<>>, <<>>)

\* The elements of s at the indices I, in order.
AtIndices(s, I) ==
    [k \in 1..Cardinality(I) |->
        s[CHOOSE i \in I : Cardinality({j \in I : j <= i}) = k]]

\* The addition row i has a non-empty name that occurs among the base rows or
\* among the addition rows before it.
NameSeenBefore(base_rows, extra_rows, i) ==
    /\ Truthy(Get(extra_rows[i], "name"))
    /\ \/ \E j \in DOMAIN base_rows : Get(base_rows[j], "name") = Get(extra_rows[i], "name")
       \/ \E j \in 1..(i - 1) : Get(extra_rows[j], "name") = Get(extra_rows[i], "name")

\* No two rows hold the same non-empty name.
NamesDistinct(rows) ==
    \A i, j \in DOMAIN rows :
        (i # j /\ Truthy(Get(rows[i], "name"))) => Get(rows[i], "name") # Get(rows[j], "name")

Merged == pc \in {"merged", "remerged"}

\* C7: merge dedup.  With dedupe_by_name an addition row whose non-empty name
\* occurs among the rows accumulated so far is not appended and its name is
\* listed under skipped; so a sheet whose names are pairwise distinct keeps them
\* pairwise distinct, after one merge and after the next one.
C7_MergeDedup ==
    (Merged /\ dedupe_by_name) =>
        \A k \in DOMAIN addition_spec :
            LET name == addition_spec[k][1]
                extra_rows == addition_spec[k][2].rows
                base_rows == SheetOf(base_spec, name).rows
                rows == SheetOf(merged_spec, name).rows
                dup == {i \in DOMAIN extra_rows : NameSeenBefore(base_rows, extra_rows, i)}
            IN /\ Get(summary, name).skipped =
                    [i \in DOMAIN AtIndices(extra_rows, dup) |->
                        Get(AtIndices(extra_rows, dup)[i], "name")]
               /\ Len(rows) = Len(base_rows) + Len(extra_rows) - Cardinality(dup)
               /\ \A i \in dup :
                    Cardinality({j \in DOMAIN rows :
                                    Get(rows[j], "name") = Get(extra_rows[i], "name")})
                    = IF \E j \in DOMAIN base_rows :
                            Get(base_rows[j], "name") = Get(extra_rows[i], "name")
                      THEN Cardinality({j \in DOMAIN base_rows :
                                    Get(base_rows[j], "name") = Get(extra_rows[i], "name")})
                      ELSE 1
               /\ NamesDistinct(base_rows) => NamesDistinct(rows)

C7_Witness ==
    /\ pc = "remerged"
    /\ dedupe_by_name
    /\ \E k \in DOMAIN addition_spec :
        /\ Len(addition_spec[k][2].rows) = 2
        /\ Get(summary, addition_spec[k][1]).skipped = <<"age", "age">>
        /\ NamesDistinct(SheetOf(merged_spec, addition_spec[k][1]).rows)

\* C8: merge accounting.  For each sheet of the addition the merged rows are
\* the base rows followed by the addition rows that were not skipped, in their
\* order; every addition row is in the merged rows or has its name in skipped;
\* added lists the non-empty names of the appended rows in order; without
\* dedupe_by_name nothing is skipped and every addition row is appended.
C8_MergeAccounting ==
    Merged =>
        \A k \in DOMAIN addition_spec :
            LET name == addition_spec[k][1]
                extra_rows == addition_spec[k][2].rows
                base_rows == SheetOf(base_spec, name).rows
                rows == SheetOf(merged_spec, name).rows
                skipped == Get(summary, name).skipped
                appended == SubSeq(rows, Len(base_rows) + 1, Len(rows))
                kept == {i \in DOMAIN extra_rows :
                            ~(dedupe_by_name /\ NameSeenBefore(base_rows, extra_rows, i))}
            IN /\ SubSeq(rows, 1, Len(base_rows)) = base_rows
               /\ appended = AtIndices(extra_rows, kept)
               /\ \A i \in DOMAIN extra_rows :
                    \/ extra_rows[i] \in Range(rows)
                    \/ Get(extra_rows[i], "name") \in Range(skipped)
               /\ Get(summary, name).added =
                    LET named == {i \in DOMAIN appended : Truthy(Get(appended[i], "name"))}
                    IN [i \in DOMAIN AtIndices(appended, named) |->
                            Get(AtIndices(appended, named)[i], "name")]
               /\ ~dedupe_by_name => (skipped = <<>> /\ appended = extra_rows)

C8_Witness ==
    /\ pc = "merged"
    /\ dedupe_by_name
    /\ \E k \in DOMAIN addition_spec :
        LET name == addition_spec[k][1]
        IN /\ SheetOf(base_spec, name).rows # <<>>
           /\ Get(summary, name).skipped # <<>>
           /\ Get(summary, name).added # <<>>

\* C9: merge column ordering.  For a sheet with a preferred-order entry the
\* merged column list is the Column Orderer applied to the union of the base
\* and the addition columns (each preferred column followed by its language
\* variants).
C9_MergeUsesOrderer ==
    Merged =>
        \A k \in DOMAIN addition_spec :
            LET name == addition_spec[k][1]
                union == ExtendUnseen(SheetOf(base_spec, name).columns,
                                      addition_spec[k][2].columns)
            IN Preferred(name) # <<>> =>
                SheetOf(merged_spec, name).columns = OrderColumns(name, union)

(***************************************************************************)
(* Column Normalizer (src/agent.py:179-302)                                *)
(***************************************************************************)

\* val in (None, "", " ")
Blank(v) == v \in {None, "", " "}

text_fields == <<"label", "hint", "constraint_message", "required_message", "guidance_hint">>
media_fields == <<"image", "audio", "video">>
user_facing_fields == text_fields \o media_fields

\* The field of a column matching ^(label|hint|...)::(.+)$, else None.
FieldOf(col) ==
    LET fs == {f \in Range(user_facing_fields) :
                  StartsWith(col, f \o "::") /\ Len(col) > Len(f) + 2}
    IN IF fs = {} THEN None ELSE CHOOSE f \in fs : TRUE

\* What follows "<field>::" in a language-bearing column.
AfterField(col) == Drop(col, Len(FieldOf(col)) + 2)

RECURSIVE HeadersFrom(_, _)
HeadersFrom(cols, headers) ==
    IF cols = <<>> THEN headers
    ELSE LET col == Head(cols)
             header == IF FieldOf(col) = None THEN "" ELSE Strip(AfterField(col))
         IN Bind(IF header # "" /\ header \notin Range(headers)
                 THEN Append(headers, header) ELSE headers,
                 LAMBDA next : HeadersFrom(Tail(cols), next))

_language_headers_from_columns(cols) == HeadersFrom(cols, <<>>)

\* The group (.+) of ^(...)::\s*(.+)$: \s* takes the leading spaces, but
\* leaves the last one when nothing else follows.
LangPart(col) ==
    LET rest == AfterField(col)
    IN IF LStrip(rest) = "" THEN " " ELSE LStrip(rest)

_normalize_language_column_name(col) ==
    IF FieldOf(col) = None THEN col
    ELSE LET header == _normalize_language_tag(LangPart(col)).header
         IN IF header # "" THEN FieldOf(col) \o "::" \o header ELSE col

\* A renaming in which the first of two colliding keys always wins.
RECURSIVE RenameKeepFirst(_, _, _)
RenameKeepFirst(items, mapping, new_row) ==
    IF items = <<>> THEN new_row
    ELSE LET new_key == mapping[Head(items)[1]]
         IN RenameKeepFirst(Tail(items), mapping,
                            IF new_key \in Keys(new_row) THEN new_row
                            ELSE Put(new_row, new_key, Head(items)[2]))

\* The body of the loop over row.items() (lines 222-229).
RECURSIVE RenameItems(_, _, _)
RenameItems(items, mapping, new_row) ==
    IF items = <<>> THEN new_row
    ELSE LET new_key == mapping[Head(items)[1]]
             val == Head(items)[2]
         IN Bind(IF new_key \in Keys(new_row)
                 THEN IF Blank(Get(new_row, new_key)) /\ ~Blank(val)
                      THEN Put(new_row, new_key, val) ELSE new_row
                 ELSE Put(new_row, new_key, val),
                 LAMBDA next : RenameItems(Tail(items), mapping, next))

\* all_keys (lines 210-212)
AllKeys(cols, rows) == Range(cols) \cup UNION {Keys(rows[i]) : i \in DOMAIN rows}

\* mapping (lines 214-217)
KeyMapping(cols, rows) ==
    [key \in AllKeys(cols, rows) |-> _normalize_language_column_name(key)]

\* updated_columns after the loop over columns (lines 232-236).
RenamedColumns(cols, rows) ==
    LET mapping == KeyMapping(cols, rows)
    IN ExtendUnseen(<<>>, [i \in DOMAIN cols |-> mapping[cols[i]]])

\* A normalizer that never looks for keys that only the rows hold.
NoRowOnlyKeys(cols, rows) == {}

\* The renamed keys that only the rows hold.  The loop of lines 239-242 walks
\* the set all_keys, in an order Python does not fix, and appends each of
\* these once: the columns gain them in some order.
RowOnlyKeys(cols, rows) ==
    LET mapping == KeyMapping(cols, rows)
    IN {mapping[k] : k \in AllKeys(cols, rows)} \ Range(RenamedColumns(cols, rows))

\* The orders in which a set can be walked.
Orders(S) == {s \in [1..Cardinality(S) -> S] : Range(s) = S}

\* A fallback that looks at the bare field before the language columns.
RECURSIVE FallbackBareFirst(_, _)
FallbackBareFirst(row, candidate_keys) ==
    IF candidate_keys = <<>> THEN None
    ELSE LET last == candidate_keys[Len(candidate_keys)]
         IN IF ~Blank(Get(row, last)) THEN Get(row, last)
            ELSE FallbackBareFirst(row, SubSeq(candidate_keys, 1, Len(candidate_keys) - 1))

\* The fallback of a row for a text field (lines 283-288): the first non-blank
\* value under the language columns, then under the bare field; None if none.
RECURSIVE Fallback(_, _)
Fallback(row, candidate_keys) ==
    IF candidate_keys = <<>> THEN None
    ELSE IF ~Blank(Get(row, Head(candidate_keys))) THEN Get(row, Head(candidate_keys))
    ELSE Fallback(row, Tail(candidate_keys))

\* The loop over lang_cols filling a row (lines 290-292).
RECURSIVE FillRow(_, _, _)
FillRow(row, lang_cols, fallback) ==
    IF lang_cols = <<>> THEN row
    ELSE FillRow(IF Blank(Get(row, Head(lang_cols))) /\ ~Blank(fallback)
                 THEN Put(row, Head(lang_cols), fallback) ELSE row,
                 Tail(lang_cols), fallback)

\* A row body that fills the language cells of every field, media included.
ExpandRowFillsMedia(row, field, lang_cols) ==
    Pop(FillRow(row, lang_cols, Fallback(row, Append(lang_cols, field))), field)

\* The body of the loop over the rows for one field (lines 280-296).
ExpandRow(row, field, lang_cols) ==
    LET filled == IF field \in Range(text_fields)
                  THEN FillRow(row, lang_cols, Fallback(row, Append(lang_cols, field)))
                  ELSE row
    IN Pop(filled, field)

\* A column list that keeps the bare field.
KeepBase(cols, field) == cols

\* The column list without the bare field (line 299).
RemoveBase(cols, field) == SelectSeq(cols, LAMBDA c : c # field)

\* The body of the loop over user_facing_fields (lines 254-300) on
\* sheet = [columns, rows].
ExpandField(sheet, field, lang_headers) ==
    Bind([i \in DOMAIN lang_headers |-> field \o "::" \o lang_headers[i]], LAMBDA lang_cols :
    LET cols == sheet.columns
        lang_col_set == Range(lang_cols)
        field_present == field \in Range(cols) \/ (lang_col_set \cap Range(cols)) # {}
        at == {i \in DOMAIN cols : cols[i] \in lang_col_set}
        others == SelectSeq(cols, LAMBDA c : c \notin lang_col_set)
        expanded ==
            IF at = {} THEN others \o lang_cols
            ELSE LET first_idx == (CHOOSE i \in at : \A j \in at : i <= j) - 1
                 IN SubSeq(others, 1, first_idx) \o lang_cols
                    \o SubSeq(others, first_idx + 1, Len(others))
    IN IF ~field_present THEN sheet
       ELSE [columns |-> RemoveBase(expanded, field),
             rows |-> [i \in DOMAIN sheet.rows |->
                          ExpandRow(sheet.rows[i], field, lang_cols)]])

RECURSIVE ExpandFields(_, _, _)
ExpandFields(sheet, fields, lang_headers) ==
    IF fields = <<>> THEN sheet
    ELSE Bind(ExpandField(sheet, Head(fields), lang_headers),
              LAMBDA expanded : ExpandFields(expanded, Tail(fields), lang_headers))

\* _normalize_language_columns_and_rows(columns, rows), with the order in
\* which the walk over all_keys meets the keys that only the rows hold.  The
\* result also records two of the function's locals: updated_rows as it is
\* after the renaming (renamed) and lang_headers.
_normalize_language_columns_and_rows(cols, rows, key_order) ==
    Bind(KeyMapping(cols, rows), LAMBDA mapping :
    Bind([i \in DOMAIN rows |-> RenameItems(rows[i], mapping, <<>>)], LAMBDA renamed :
    Bind(RenamedColumns(cols, rows) \o key_order, LAMBDA updated_columns :
    Bind(_language_headers_from_columns(updated_columns), LAMBDA lang_headers :
    Bind(IF lang_headers = <<>>
         THEN [columns |-> updated_columns, rows |-> renamed]
         ELSE ExpandFields([columns |-> updated_columns, rows |-> renamed],
                           user_facing_fields, lang_headers),
         LAMBDA result :
            [columns |-> result.columns, rows |-> result.rows,
             renamed |-> renamed, lang_headers |-> lang_headers])))))

MaxRowKeys == 2

\* Declared column lists of a sheet.
NormColumnInputs ==
    {<<>>,
     <<"name", "label">>,
     <<"label::French", "name", "label::en">>,
     <<"label", "image::fr", "name">>,
     <<"image", "hint", "label::Klingon">>,
     <<"name", "label::English ( )">>,
     <<"label:: ", "hint::en">>}

NormRowKeys == <<"label", "label::English (en)", "label::en", "image">>

NormValues == {"", " ", "a", "b"}

\* The rows of at most n cells over the keys K.
RECURSIVE RowsUpTo(_, _)
RowsUpTo(K, n) ==
    IF n = 0 THEN {<<>>}
    ELSE LET shorter == RowsUpTo(K, n - 1)
         IN shorter \cup {Append(r, <<k, v>>) :
                            r \in shorter, k \in K, v \in NormValues}

\* The place of a key in NormRowKeys.
KeyPlace(key) == CHOOSE i \in DOMAIN NormRowKeys : NormRowKeys[i] = key

\* The rows whose keys are distinct and come in the order of NormRowKeys or
\* in the opposite order.
NormRowInputs ==
    {r \in RowsUpTo(Range(NormRowKeys), MaxRowKeys) :
        \/ \A i, j \in DOMAIN r : i < j => KeyPlace(r[i][1]) < KeyPlace(r[j][1])
        \/ \A i, j \in DOMAIN r : i < j => KeyPlace(r[i][1]) > KeyPlace(r[j][1])}

\* A second row of the sheet.
SecondRowInput == << <<"image::en", "a">>, <<"label", None>> >>

\* A row with a bare label and two blank cells whose keys name one language.
BlankCollisionInput ==
    << <<"label", "a">>, <<"label::English (en)", "">>, <<"label::en", " ">> >>

NormRowLists ==
    {<<>>} \cup {<<r>> : r \in NormRowInputs}
           \cup {<<r, SecondRowInput>> : r \in NormRowInputs}
           \cup {<<BlankCollisionInput>>}

OrderIdleButColumns == sheet_name = None /\ ordered = <<>> /\ reordered = <<>>

InitNorm ==
    /\ pc = "start"
    /\ CacheIdle
    /\ columns \in NormColumnInputs
    /\ sheet_rows \in NormRowLists
    /\ once = <<>>
    /\ twice = <<>>
    /\ OrderIdleButColumns
    /\ LangIdle
    /\ MergeIdle
    /\ ToolIdle

\* A call _normalize_language_columns_and_rows(columns, sheet_rows).
Normalize ==
    /\ pc = "start"
    /\ \E key_order \in Orders(RowOnlyKeys(columns, sheet_rows)) :
        once' = _normalize_language_columns_and_rows(columns, sheet_rows, key_order)
    /\ pc' = "normalized"
    /\ UNCHANGED <<columns, sheet_rows, twice, sheet_name, ordered, reordered, langVars, mergeVars, toolVars, cacheVars>>

\* The call again, on the columns and rows it returned.
NormalizeAgain ==
    /\ pc = "normalized"
    /\ \E key_order \in Orders(RowOnlyKeys(once.columns, once.rows)) :
        twice' = _normalize_language_columns_and_rows(once.columns, once.rows, key_order)
    /\ pc' = "renormalized"
    /\ UNCHANGED <<columns, sheet_rows, once, sheet_name, ordered, reordered, langVars, mergeVars, toolVars, cacheVars>>

NextNorm == Normalize \/ NormalizeAgain

SpecNorm == InitNorm /\ [][NextNorm]_vars

(***************************************************************************)
(* Properties of the Column Normalizer                                     *)
(***************************************************************************)

Normalized == pc \in {"normalized", "renormalized"}

\* A key that carries the field with a language: "<field>::<language>", the
\* language not blank.
IsVariant(key, field) == FieldOf(key) = field /\ Strip(AfterField(key)) # ""

\* The field is in the sheet, bare or as a language variant, in the declared
\* columns or in a row.
FieldPresent(field) ==
    \E key \in AllKeys(columns, sheet_rows) : key = field \/ IsVariant(key, field)

\* The headers of the languages that the sheet's columns and row keys name.
ActiveHeaders ==
    {_normalize_language_tag(AfterField(key)).header :
        key \in {k \in AllKeys(columns, sheet_rows) :
                    \E f \in Range(user_facing_fields) : IsVariant(k, f)}}

Occurrences(seq, x) == Cardinality({i \in DOMAIN seq : seq[i] = x})

\* C1: the Column Normalizer is idempotent.  Applied to its own output it
\* returns the same columns in the same order and rows with the same keys and
\* values.
C1_Idempotent ==
    pc = "renormalized" =>
        /\ twice.columns = once.columns
        /\ Len(twice.rows) = Len(once.rows)
        /\ \A i \in DOMAIN once.rows : AsMap(twice.rows[i]) = AsMap(once.rows[i])

\* C2: expansion completeness.  When a language is active, a user-facing field
\* that the sheet holds, bare or as a language variant, has in the output
\* columns one variant for each active header and no other, the bare column is
\* gone from the columns and from every row; a field the sheet does not hold
\* gains no column.
C2_ExpansionComplete ==
    (Normalized /\ ActiveHeaders # {}) =>
        LET active == ActiveHeaders
        IN \A f \in Range(user_facing_fields) :
            LET variants == {c \in Range(once.columns) : IsVariant(c, f)}
            IN IF FieldPresent(f)
               THEN /\ variants = {f \o "::" \o h : h \in active}
                    /\ \A c \in variants : Occurrences(once.columns, c) = 1
                    /\ f \notin Range(once.columns)
                    /\ \A i \in DOMAIN once.rows : f \notin Keys(once.rows[i])
               ELSE variants = {} /\ f \notin Range(once.columns)

C2_Witness ==
    /\ pc = "normalized"
    /\ columns = <<"label", "image::fr", "name">>
    /\ sheet_rows = << << <<"label::en", "a">> >> >>
    /\ once.columns = <<"image::French(fr)", "image::English(en)", "name",
                        "label::French(fr)", "label::English(en)">>

\* The first non-blank value of the row under the keys, None if there is none.
FirstNonBlank(row, keys) ==
    LET at == {j \in DOMAIN keys : ~Blank(Get(row, keys[j]))}
    IN IF at = {} THEN None
       ELSE Get(row, keys[CHOOSE j \in at : \A k \in at : j <= k])

\* C3: text fallback.  For every row and every text field the sheet holds, a
\* language cell that was blank after the renaming holds the first non-blank
\* value of the row's language cells, in the order of the active headers, and
\* then of the bare field; a cell that was not blank keeps its value; the
\* row's language cells of the field end all non-blank or all blank.
C3_TextFallback ==
    (Normalized /\ once.lang_headers # <<>>) =>
        \A i \in DOMAIN once.rows : \A f \in Range(text_fields) :
            LET before == once.renamed[i]
                after == once.rows[i]
                lang_cols == [j \in DOMAIN once.lang_headers |->
                                 f \o "::" \o once.lang_headers[j]]
                found == FirstNonBlank(before, Append(lang_cols, f))
            IN FieldPresent(f) =>
                /\ \A j \in DOMAIN lang_cols :
                      IF Blank(Get(before, lang_cols[j]))
                      THEN IF found = None THEN Blank(Get(after, lang_cols[j]))
                           ELSE Get(after, lang_cols[j]) = found
                      ELSE Get(after, lang_cols[j]) = Get(before, lang_cols[j])
                /\ \/ \A j \in DOMAIN lang_cols : ~Blank(Get(after, lang_cols[j]))
                   \/ \A j \in DOMAIN lang_cols : Blank(Get(after, lang_cols[j]))

C3_Witness ==
    /\ pc = "normalized"
    /\ columns = <<"label::French", "name", "label::en">>
    /\ sheet_rows = << << <<"label::en", "a">>, <<"label", "b">> >> >>
    /\ Get(once.rows[1], "label::French(fr)") = "a"
    /\ Get(once.rows[1], "label::English(en)") = "a"

\* C4: media non-fallback.  A media field the sheet holds has a column for
\* every active header, and a media language cell of an output row is
\* non-blank only if the input row held that value under a key renamed to
\* that cell's column.
C4_MediaNotFilled ==
    Normalized =>
        \A f \in Range(media_fields) : \A j \in DOMAIN once.lang_headers :
            LET col == f \o "::" \o once.lang_headers[j]
            IN /\ FieldPresent(f) => col \in Range(once.columns)
               /\ \A i \in DOMAIN once.rows :
                    LET val == Get(once.rows[i], col)
                    IN ~Blank(val) =>
                        \E k \in DOMAIN sheet_rows[i] :
                            /\ _normalize_language_column_name(sheet_rows[i][k][1]) = col
                            /\ sheet_rows[i][k][2] = val

C4_Witness ==
    /\ pc = "normalized"
    /\ columns = <<"label", "image::fr", "name">>
    /\ Len(sheet_rows) = 2
    /\ sheet_rows[1] = << <<"image", "b">> >>
    /\ "image::French(fr)" \in Range(once.columns)
    /\ Get(once.rows[2], "image::English(en)") = "a"
    /\ Blank(Get(once.rows[2], "image::French(fr)"))
    /\ Blank(Get(once.rows[1], "image::French(fr)"))

(***************************************************************************)
(* Sheet writer (src/agent.py:347-376)                                     *)
(***************************************************************************)

\* _LANG_COL_RE.match(col)
_LANG_COL_RE(col) == FieldOf(col) # None

\* A pruning that treats the language-bearing columns like the others.
ColumnsWithDataOnly(cols, rows) ==
    IF rows = <<>> THEN cols
    ELSE SelectSeq(cols, LAMBDA col : \E i \in DOMAIN rows : ~Blank(Get(rows[i], col)))

\* _columns_with_data(columns, rows)
_columns_with_data(cols, rows) ==
    IF rows = <<>> THEN cols
    ELSE SelectSeq(cols, LAMBDA col :
            \/ _LANG_COL_RE(col)
            \/ \E i \in DOMAIN rows : ~Blank(Get(rows[i], col)))

\* row.get(col, ""): the default stands for an absent key only.
GetOr(d, k, default) == IF k \in Keys(d) THEN Get(d, k) ELSE default

\* _write_sheet(ws, columns, rows) on an empty worksheet: the lists appended
\* to ws, the header first when there is one.
_write_sheet(cols, rows) ==
    LET kept == _columns_with_data(cols, rows)
    IN (IF kept # <<>> THEN <<kept>> ELSE <<>>)
       \o [i \in DOMAIN rows |-> [j \in DOMAIN kept |-> GetOr(rows[i], kept[j], "")]]

MaxSheetColumns == 2
MaxSheetRows == 2

SheetColumnInputs == {"name", "hint", "label", "label::French(fr)"}

SheetRowInputs ==
    {<<>>,
     << <<"name", "q1">> >>,
     << <<"name", "q1">>, <<"hint", "">> >>,
     << <<"hint", " ">> >>,
     << <<"hint", None>>, <<"label::French(fr)", "">> >>,
     << <<"hint", "h">> >>,
     << <<"label::French(fr)", "Bonjour">>, <<"name", "">> >>}

InitSheet ==
    /\ pc = "start"
    /\ CacheIdle
    /\ columns \in DistinctSeqsUpTo(SheetColumnInputs, MaxSheetColumns)
    /\ sheet_rows \in SeqsUpTo(SheetRowInputs, MaxSheetRows)
    /\ once = <<>>
    /\ twice = <<>>
    /\ OrderIdleButColumns
    /\ LangIdle
    /\ MergeIdle
    /\ ToolIdle

\* A call _write_sheet(ws, columns, sheet_rows) on a cleared worksheet.
WriteSheet ==
    /\ pc = "start"
    /\ returned' = _write_sheet(columns, sheet_rows)
    /\ pc' = "written"
    /\ UNCHANGED <<heap, heap_before, form_spec, args, workbook, normalized_sheets, langVars, orderVars, mergeVars, normVars, cacheVars>>

NextSheet == WriteSheet

SpecSheet == InitSheet /\ [][NextSheet]_vars

\* The column matches "<field>::<header>" for a user-facing field.
IsLanguageBearing(col) ==
    \E f \in Range(user_facing_fields) :
        Len(col) > Len(f) + 2 /\ SubSeq(col, 1, Len(f) + 2) = f \o "::"

\* Some row holds a value other than None, "" and " " in the column.
HasData(rows, col) ==
    \E i \in DOMAIN rows : Get(rows[i], col) \notin {None, "", " "}

\* The header that the sheet writer wrote, <<>> when it wrote none.
WrittenHeader ==
    IF Len(returned) > Len(sheet_rows) THEN returned[1] ELSE <<>>

Dict(pairs) == <<"dict", pairs>>
List(items) == <<"list", items>>
Str(text) == <<"str", text>>

\* isinstance(v, dict), isinstance(v, list)
IsDict(v) == v[1] = "dict"
IsList(v) == v[1] = "list"

\* d.get(k) or [], for a value that is a list when it is there: its items.
GetList(d, k) == IF k \in Keys(d) THEN Get(d, k)[2] ELSE <<>>

\* The sheets that _normalize_form_spec reads (lines 329-332).
SheetsOf(spec) ==
    IF "sheets" \in Keys(spec) /\ IsDict(Get(spec, "sheets"))
    THEN Get(spec, "sheets")[2]
    ELSE SelectSeq(spec, LAMBDA kv : IsDict(kv[2]) \/ IsList(kv[2]))

\* A sheet read from its "columns" only.
NormalizeSheetColumnsOnly(sheet) ==
    IF IsList(sheet) THEN Sheet(<<>>, sheet[2])
    ELSE Sheet(GetList(sheet[2], "columns"), GetList(sheet[2], "rows"))

\* The body of the loop of _normalize_form_spec (lines 336-343).
NormalizeSheet(sheet) ==
    IF IsList(sheet) THEN Sheet(<<>>, sheet[2])
    ELSE LET columns_ == GetList(sheet[2], "columns")
         IN Sheet(IF columns_ # <<>> THEN columns_ ELSE GetList(sheet[2], "headers"),
                  GetList(sheet[2], "rows"))

RECURSIVE NormalizeSheets(_, _)
NormalizeSheets(sheets, normalized_) ==
    IF sheets = <<>> THEN normalized_
    ELSE NormalizeSheets(Tail(sheets),
            Put(normalized_, Head(sheets)[1], NormalizeSheet(Head(sheets)[2])))

\* _normalize_form_spec(form_spec): sheet name -> [columns, rows].
_normalize_form_spec(spec) == NormalizeSheets(SheetsOf(spec), <<>>)

\* The row dicts of a row list.
Deref(h, addrs) == [i \in DOMAIN addrs |-> h[addrs[i]]]

RECURSIVE SeenKeys(_, _)
SeenKeys(rows, seen) ==
    IF rows = <<>> THEN seen
    ELSE SeenKeys(Tail(rows),
            ExtendUnseen(seen, [i \in DOMAIN Head(rows) |-> Head(rows)[i][1]]))

\* _infer_columns(rows, preferred)
_infer_columns(rows, preferred) ==
    LET seen == SeenKeys(rows, <<>>)
    IN IF preferred # <<>>
       THEN ExtendUnseen(SelectSeq(preferred, LAMBDA col : col \in Range(seen)), seen)
       ELSE seen

(***************************************************************************)
(* write_xlsform (src/agent.py:804-924)                                    *)
(*                                                                         *)
(* The call is made with base_form_path left out; the workbook it starts   *)
(* from (the cached template, or a blank workbook when there is none) is   *)
(* args.base_workbook.  A workbook is a dict: sheet name -> written lines. *)
(***************************************************************************)

\* Lines 845-849: the declared columns, else the inferred ones, else the default.
DeclaredOrInferred(name, cols, rows) ==
    LET inferred == IF cols # <<>> THEN cols ELSE _infer_columns(rows, Preferred(name))
    IN IF inferred # <<>> THEN inferred
       ELSE IF Lower(name) = "survey" THEN <<"type", "name", "label">>
       ELSE <<"name", "label">>

\* _prepare_sheet(sheet_name, sheet_spec), with the rows as dicts.
_prepare_sheet(name, cols, rows, key_order) ==
    Bind(DeclaredOrInferred(name, cols, rows), LAMBDA columns_ :
    Bind(_normalize_language_columns_and_rows(columns_, rows, key_order),
         LAMBDA prepared : <<OrderColumns(name, prepared.columns), prepared.rows>>))

\* The sheets that the loop of lines 876-882 prepares.
OtherSheets(spec) == SelectSeq(spec, LAMBDA kv : Lower(kv[1]) # "settings")

\* The orders in which line 239 can meet the row-only keys, one per sheet.
RECURSIVE KeyOrders(_, _)
KeyOrders(sheets, h) ==
    IF sheets = <<>> THEN {<<>>}
    ELSE LET name == Head(sheets)[1]
             sheet == Head(sheets)[2]
             rows == Deref(h, sheet.rows)
             first == Orders(RowOnlyKeys(DeclaredOrInferred(name, sheet.columns, rows), rows))
         IN {<<o>> \o rest : o \in first, rest \in KeyOrders(Tail(sheets), h)}

PrepareOthers(sheets, h, orders) ==
    [i \in DOMAIN sheets |->
        <<sheets[i][1],
          Bind(Deref(h, sheets[i][2].rows), LAMBDA rows :
               _prepare_sheet(sheets[i][1], sheets[i][2].columns, rows, orders[i]))>>]

\* survey_languages after the loop: the last sheet named survey decides.
RECURSIVE SurveyLanguages(_, _)
SurveyLanguages(prepared, acc) ==
    IF prepared = <<>> THEN acc
    ELSE SurveyLanguages(Tail(prepared),
            IF Lower(Head(prepared)[1]) = "survey"
            THEN _language_headers_from_columns(Head(prepared)[2][1])
            ELSE acc)

\* Lines 887-890 without the assignment.
KeepDefaultLanguage(spec, h, survey_languages) == h

\* Lines 887-890: row["default_language"] = survey_languages[0] on the row
\* dicts of the settings sheet, which are the caller's.
FillDefaultLanguage(spec, h, survey_languages) ==
    IF "settings" \in Keys(spec) /\ survey_languages # <<>>
    THEN [a \in DOMAIN h |->
            IF a \in Range(Get(spec, "settings").rows)
               /\ ~Truthy(Get(h[a], "default_language"))
            THEN Put(h[a], "default_language", survey_languages[1])
            ELSE h[a]]
    ELSE h

\* Line 891
SettingsColumns(spec) ==
    IF Get(spec, "settings").columns # <<>> THEN Get(spec, "settings").columns
    ELSE FirstValue(_PREFERRED_COLUMN_ORDER, "settings")

SettingsKeyOrders(spec, h) ==
    IF "settings" \in Keys(spec)
    THEN Orders(RowOnlyKeys(SettingsColumns(spec), Deref(h, Get(spec, "settings").rows)))
    ELSE {<<>>}

\* Lines 884-893
WithSettings(prepared, spec, h, key_order) ==
    IF "settings" \in Keys(spec)
    THEN Bind(SettingsColumns(spec), LAMBDA columns_ :
         Bind(Deref(h, Get(spec, "settings").rows), LAMBDA rows :
         Bind(_normalize_language_columns_and_rows(columns_, rows, key_order),
              LAMBDA settings_ :
                 Put(prepared, "settings", <<settings_.columns, settings_.rows>>))))
    ELSE prepared

\* Lines 895-905: a sheet of the workbook is reused, a new one goes last.
RECURSIVE WriteSheets(_, _)
WriteSheets(wb, sheets) ==
    IF sheets = <<>> THEN wb
    ELSE WriteSheets(Put(wb, Head(sheets)[1],
                         _write_sheet(Head(sheets)[2][1], Head(sheets)[2][2])),
                     Tail(sheets))

\* Lines 907-910
DropUnwritten(wb, written, preserve_additional_sheets) ==
    SelectSeq(wb, LAMBDA kv : preserve_additional_sheets \/ kv[1] \in written)

\* Path(...).expanduser().resolve() of a relative file name
WorkingDirectory == "/work/"
Resolve(path) == WorkingDirectory \o path

\* Lines 920-924
WriteSummary(a, wb, spec, sheets) ==
    [output_path |-> Resolve(IF Truthy(a.output_path) THEN a.output_path
                             ELSE "odk_form_draft.xlsx"),
     sheet_names |-> [i \in DOMAIN wb |-> wb[i][1]],
     row_counts |-> [i \in DOMAIN sheets |->
                        <<sheets[i][1],
                          IF sheets[i][1] \in Keys(spec)
                          THEN Len(Get(spec, sheets[i][1]).rows) ELSE 0>>]]

\* What a raised exception leaves in `returned`.
Raised(exception) == [raised |-> exception]
IsRaised(r) == "raised" \in DOMAIN r

\* Lines 895-924, once every sheet is prepared.
SaveWorkbook(a, spec, h, sheets) ==
    Bind(DropUnwritten(WriteSheets(a.base_workbook, sheets), Keys(sheets),
                       a.preserve_additional_sheets),
         LAMBDA wb : [heap |-> h, workbook |-> wb, normalized_sheets |-> sheets,
                      returned |-> WriteSummary(a, wb, spec, sheets)])

\* Lines 884-924
WriteFrom(a, spec, h, prepared) ==
    Bind(SurveyLanguages(prepared, <<>>), LAMBDA survey_languages :
    Bind(FillDefaultLanguage(spec, h, survey_languages), LAMBDA filled :
        {Bind(WithSettings(prepared, spec, filled, settings_order),
              LAMBDA sheets : SaveWorkbook(a, spec, filled, sheets)) :
            settings_order \in SettingsKeyOrders(spec, filled)}))

\* write_xlsform(form_spec, output_path, preserve_additional_sheets=...) on a
\* form_spec that is not empty: the outcomes it can have, each with the heap
\* it leaves, the workbook it saves and what it returns.
write_xlsform(spec_arg, h, a) ==
    Bind(_normalize_form_spec(spec_arg), LAMBDA spec :
    Bind(OtherSheets(spec), LAMBDA others :
        UNION {Bind(PrepareOthers(others, h, orders),
                    LAMBDA prepared : WriteFrom(a, spec, h, prepared)) :
                 orders \in KeyOrders(others, h)}))

MaxSettingsRows == 2

WriteSurveyInputs ==
    { Sheet(<<"type", "name", "label::English (en)", "hint">>,
            << << <<"type", "text">>, <<"name", "q1">>, <<"label::English (en)", "Q1">>,
                  <<"image", "a.png">>, <<"note", "">> >> >>),
      Sheet(<<"type", "name", "label", "hint">>,
            << << <<"type", "text">>, <<"name", "q1">>, <<"label", "Q1">> >> >>),
      Sheet(<<>>,
            << << <<"type", "text">>, <<"name", "q1">>, <<"label::fr", "Q">>,
                  <<"hint::English(en)", "">> >> >>) }

SettingsRowInputs ==
    { << <<"form_title", "F">> >>,
      << <<"default_language", " ">>, <<"form_title", "F">> >>,
      << <<"form_title", "F">>, <<"default_language", "Spanish(es)">> >> }

\* Rows that hold default_language without a value.
UnsetRowsInput ==
    << << <<"form_title", "F">>, <<"default_language", "">> >>,
       << <<"default_language", None>> >> >>

SettingsColumnInputs == {<<>>, <<"form_title">>}

WriteSettingsInputs ==
    {Sheet(cols, rows) : cols \in SettingsColumnInputs,
                         rows \in SeqsUpTo(SettingsRowInputs, MaxSettingsRows)
                                  \cup {UnsetRowsInput}}

\* The sheets handed to write_xlsform: none, a survey, or a survey and a
\* settings sheet in either order, under either spelling of the names.
WriteSheetLists ==
    {<<>>}
    \cup {<< <<name, survey>> >> : name \in {"survey", "Survey"}, survey \in WriteSurveyInputs}
    \cup UNION {{ << <<name, survey>>, <<sname, settings>> >>,
                  << <<sname, settings>>, <<name, survey>> >> } :
                    name \in {"survey", "Survey"}, survey \in WriteSurveyInputs,
                    sname \in {"settings", "Settings"}, settings \in WriteSettingsInputs}

\* The caller's objects: the row dicts go to the heap, a sheet spec holds the
\* addresses of its rows.
RECURSIVE Allocate(_, _, _)
Allocate(sheets, h, acc) ==
    IF sheets = <<>> THEN [heap |-> h, sheets |-> acc]
    ELSE LET sheet == Head(sheets)[2]
             addrs == [i \in DOMAIN sheet.rows |-> Len(h) + i]
         IN Allocate(Tail(sheets), h \o sheet.rows,
                Append(acc, <<Head(sheets)[1],
                              Dict(<< <<"columns", List(sheet.columns)>>,
                                      <<"rows", List(addrs)>> >>)>>))

TemplateWorkbook ==
    << <<"settings", << <<"form_title", "form_id">> >> >>,
       <<"survey", << <<"type", "name", "label">> >> >>,
       <<"help", << <<"Read me">> >> >> >>

WriteArgInputs ==
    { [output_path |-> "", base_workbook |-> <<>>, preserve_additional_sheets |-> TRUE],
      [output_path |-> "form.xlsx", base_workbook |-> TemplateWorkbook,
       preserve_additional_sheets |-> TRUE],
      [output_path |-> "form.xlsx", base_workbook |-> TemplateWorkbook,
       preserve_additional_sheets |-> FALSE] }

InitWrite ==
    /\ pc = "start"
    /\ CacheIdle
    /\ \E sheets \in WriteSheetLists :
        LET caller == Allocate(sheets, <<>>, <<>>)
        IN /\ heap = caller.heap
           /\ form_spec = << <<"sheets", Dict(caller.sheets)>> >>
    /\ heap_before = heap
    /\ args \in WriteArgInputs
    /\ returned = <<>>
    /\ workbook = <<>>
    /\ normalized_sheets = <<>>
    /\ LangIdle /\ OrderIdle /\ NormIdle /\ MergeIdle

\* Line 822-823: nothing to write.
WriteXlsformEmpty ==
    /\ pc = "start"
    /\ _normalize_form_spec(form_spec) = <<>>
    /\ returned' = Raised("ValueError")
    /\ pc' = "raised"
    /\ UNCHANGED <<heap, heap_before, form_spec, args, workbook, normalized_sheets,
                   langVars, orderVars, mergeVars, normVars, cacheVars>>

WriteXlsform ==
    /\ pc = "start"
    /\ _normalize_form_spec(form_spec) # <<>>
    /\ \E done \in write_xlsform(form_spec, heap, args) :
        /\ heap' = done.heap
        /\ workbook' = done.workbook
        /\ normalized_sheets' = done.normalized_sheets
        /\ returned' = done.returned
    /\ pc' = "wrote"
    /\ UNCHANGED <<heap_before, form_spec, args, langVars, orderVars, mergeVars, normVars, cacheVars>>

NextWrite == WriteXlsformEmpty \/ WriteXlsform

SpecWrite == InitWrite /\ [][NextWrite]_vars

(***************************************************************************)
(* Properties of write_xlsform                                             *)
(***************************************************************************)

Wrote == pc = "wrote"

\* The row lists of the caller's sheets, as _normalize_form_spec reads them.
CallerSheets == _normalize_form_spec(form_spec)

\* The written sheet that is the survey.
WrittenSurvey == CHOOSE n \in Keys(normalized_sheets) : Lower(n) = "survey"

\* The header line of a written sheet (no line when every column was pruned).
WrittenHeaderOf(name) ==
    LET lines == Get(workbook, name)
    IN IF Len(lines) = Len(Get(normalized_sheets, name)[2]) + 1 THEN lines[1] ELSE <<>>

\* The language headers of the survey sheet as written.
WrittenSurveyLanguages == _language_headers_from_columns(WrittenHeaderOf(WrittenSurvey))

Absent == "<absent>"

\* The cell of data row i under the header col, Absent when there is no such header.
WrittenCell(name, i, col) ==
    LET header == WrittenHeaderOf(name)
    IN IF col \in Range(header)
       THEN Get(workbook, name)[i + 1][CHOOSE j \in DOMAIN header : header[j] = col]
       ELSE Absent

SettingsGiven ==
    /\ Wrote
    /\ "settings" \in Keys(CallerSheets)
    /\ \E n \in Keys(normalized_sheets) : Lower(n) = "survey"
    /\ WrittenSurveyLanguages # <<>>

\* The default_language of the caller's settings row i when the call was made.
DefaultLanguageBefore(i) ==
    Get(heap_before[Get(CallerSheets, "settings").rows[i]], "default_language")

SettingsLast ==
    /\ normalized_sheets[Len(normalized_sheets)][1] = "settings"
    /\ returned.row_counts[Len(returned.row_counts)][1] = "settings"

\* C12, as stated: given a sheet named settings and a survey with at least
\* one language header, every settings row whose default_language is missing
\* or blank (None, "" or " ") is written with the first survey language
\* header, every other row is written with the value it had, and the
\* settings sheet is prepared after all other sheets.
C12_BlankDefaulted ==
    SettingsGiven =>
        /\ \A i \in DOMAIN Get(CallerSheets, "settings").rows :
            WrittenCell("settings", i, "default_language") =
                IF Blank(DefaultLanguageBefore(i))
                THEN WrittenSurveyLanguages[1] ELSE DefaultLanguageBefore(i)
        /\ SettingsLast

\* C12, amended: the rows that get the first survey language header are
\* those whose default_language is missing, None or ""; a row with any other
\* value, a single space included, is not given the default: a non-blank
\* value is written as it was, and a single space is written as it was
\* unless pruning drops the whole column.  The settings sheet is prepared
\* after all other sheets.
C12_SettingsDefault ==
    SettingsGiven =>
        /\ \A i \in DOMAIN Get(CallerSheets, "settings").rows :
            LET before == DefaultLanguageBefore(i)
                cell == WrittenCell("settings", i, "default_language")
            IN IF ~Truthy(before) THEN cell = WrittenSurveyLanguages[1]
               ELSE IF ~Blank(before) THEN cell = before
               ELSE cell \in {before, Absent}
        /\ SettingsLast

\* A settings sheet given before the survey, with a row lacking
\* default_language and a row that sets it, has been written.
C12_Witness ==
    /\ SettingsGiven
    /\ SheetsOf(form_spec)[1][1] = "settings"
    /\ \E i, j \in DOMAIN Get(CallerSheets, "settings").rows :
        /\ "default_language" \notin Keys(heap_before[Get(CallerSheets, "settings").rows[i]])
        /\ DefaultLanguageBefore(j) = "Spanish(es)"

\* C14: after write_xlsform returns, every row of the caller's form_spec
\* (settings rows that lacked default_language included) equals its value
\* before the call.  The caller's sheets and column lists are in form_spec,
\* which the call reads through copies (line 343) and never assigns.
C14_CallerUnchanged == Wrote => heap = heap_before

\* The strings that the return value of write_xlsform holds.
Reported ==
    {returned.output_path} \cup Range(returned.sheet_names) \cup Keys(returned.row_counts)

\* The columns the caller declared for a written sheet that pruning dropped:
\* prepared, but not in the header written.
DroppedDeclared(name) ==
    {col \in Range(Get(CallerSheets, name).columns) :
        /\ col \in Range(Get(normalized_sheets, name)[1])
        /\ col \notin Range(WrittenHeaderOf(name))}

\* C17: every declared column that write_xlsform drops by empty-column
\* pruning is named in the value it returns.
C17_DroppedReported ==
    Wrote => \A name \in Keys(normalized_sheets) : DroppedDeclared(name) \subseteq Reported

(***************************************************************************)
(* new_form_spec (src/agent.py:128-132, 673-756)                           *)
(***************************************************************************)

\* ch.lower() if ch.isalnum() else "_", for every character
RECURSIVE SafeMap(_)
SafeMap(s) ==
    IF s = "" THEN ""
    ELSE (IF IsAlnum(Char(s, 1)) THEN LowerChar(Char(s, 1)) ELSE "_") \o SafeMap(Tail(s))

\* strip("_"), then the non-empty parts between "_" joined by "_"
RECURSIVE JoinParts(_, _, _)
JoinParts(s, acc, gap) ==
    IF s = "" THEN acc
    ELSE IF Char(s, 1) = "_" THEN JoinParts(Tail(s), acc, TRUE)
    ELSE JoinParts(Tail(s),
                   acc \o (IF gap /\ acc # "" THEN "_" ELSE "") \o Char(s, 1), FALSE)

_safe_form_id(title) ==
    LET cleaned == JoinParts(SafeMap(title), "", FALSE)
    IN IF cleaned # "" THEN cleaned ELSE "odk_form"

LabelColumns(headers) == [i \in DOMAIN headers |-> "label::" \o headers[i]]

\* The label::<lang> columns put after "label", which stays.
KeepLabel(cols, headers) ==
    LET idx == CHOOSE i \in DOMAIN cols : cols[i] = "label"
    IN SubSeq(cols, 1, idx) \o LabelColumns(headers) \o SubSeq(cols, idx + 1, Len(cols))

\* col_list[idx:idx + 1] = lang_cols (lines 706-708)
ReplaceLabel(cols, headers) ==
    LET idx == CHOOSE i \in DOMAIN cols : cols[i] = "label"
    IN SubSeq(cols, 1, idx - 1) \o LabelColumns(headers) \o SubSeq(cols, idx + 1, Len(cols))

\* _label(text) (lines 715-716)
_label(headers, text) == [i \in DOMAIN headers |-> <<"label::" \o headers[i], text>>]

\* The row of the language selector (lines 718-725)
SelectorRow(headers) ==
    << <<"type", "select_one form_language">>, <<"name", "form_language">> >>
    \o _label(headers, "Select your preferred language")
    \o << <<"required", "yes">> >>

\* The choice row of one language (lines 727-730)
LanguageChoice(e, headers) ==
    << <<"list_name", "form_language">>,
       <<"name", IF e.code # "" THEN e.code ELSE _safe_form_id(e.header)>> >>
    \o _label(headers, e.name)

OrElse(v, default) == IF Truthy(v) THEN v ELSE default

\* new_form_spec(form_title, form_id=..., ..., languages=langs), called at
\* the time `now`: the value of "sheets" in what it returns.
new_form_spec(a, langs, now) ==
    LET normalized_languages == _normalize_languages(langs)
        language_headers == [i \in DOMAIN normalized_languages |-> normalized_languages[i].header]
        multilingual == language_headers # <<>>
        survey_cols == FirstValue(_PREFERRED_COLUMN_ORDER, "survey")
        choices_cols == FirstValue(_PREFERRED_COLUMN_ORDER, "choices")
    IN << <<"survey",
            Sheet(IF multilingual THEN ReplaceLabel(survey_cols, language_headers)
                  ELSE survey_cols,
                  IF multilingual THEN <<SelectorRow(language_headers)>> ELSE <<>>)>>,
          <<"choices",
            Sheet(IF multilingual THEN ReplaceLabel(choices_cols, language_headers)
                  ELSE choices_cols,
                  IF multilingual
                  THEN [i \in DOMAIN normalized_languages |->
                            LanguageChoice(normalized_languages[i], language_headers)]
                  ELSE <<>>)>>,
          <<"settings",
            Sheet(FirstValue(_PREFERRED_COLUMN_ORDER, "settings"),
                  << << <<"form_title", a.form_title>>,
                        <<"form_id", OrElse(a.form_id, _safe_form_id(a.form_title))>>,
                        <<"default_language",
                          IF multilingual THEN language_headers[1] ELSE a.default_language>>,
                        <<"version", OrElse(a.version, now)>>,
                        <<"submission_url", OrElse(a.submission_url, "")>>,
                        <<"public_key", OrElse(a.public_key, "")>> >> >>)>> >>

\* datetime.datetime.now().strftime("%Y%m%d%H%M") at the time of the call
Timestamps == {"202611021100", "202611021101"}

NewArgInputs ==
    [form_title : {"Health Survey", "  "}, form_id : {None, "health"},
     default_language : {"English"}, version : {None, "3"},
     submission_url : {None}, public_key : {None, "key"}]

InitNew ==
    /\ pc = "start"
    /\ CacheIdle
    /\ languages \in SeqsUpTo(ListInputs, MaxLanguages)
    /\ args \in NewArgInputs
    /\ language = None /\ entry = NoEntry /\ normalized = <<>>
    /\ heap = <<>> /\ heap_before = <<>> /\ form_spec = <<>> /\ returned = <<>>
    /\ workbook = <<>> /\ normalized_sheets = <<>>
    /\ OrderIdle /\ NormIdle /\ MergeIdle

NewFormSpec ==
    /\ pc = "start"
    /\ \E now \in Timestamps : returned' = new_form_spec(args, languages, now)
    /\ pc' = "built"
    /\ UNCHANGED <<heap, heap_before, form_spec, args, workbook, normalized_sheets,
                   langVars, orderVars, mergeVars, normVars, cacheVars>>

NextNew == NewFormSpec

SpecNew == InitNew /\ [][NextNew]_vars

\* The headers that the language list resolves to, in order, each once.
ResolvedHeaders ==
    LET resolved == _normalize_languages(languages)
    IN [i \in DOMAIN resolved |-> resolved[i].header]

Built == pc = "built"

RowsWhere(rows, key, value) == {i \in DOMAIN rows : Get(rows[i], key) = value}

\* What C13 says of a list with languages, for the headers given.
MultilingualSpec(headers) ==
    /\ Get(Get(returned, "settings").rows[1], "default_language") = headers[1]
    /\ \A name \in {"survey", "choices"} :
        /\ \A i \in DOMAIN headers :
            "label::" \o headers[i] \in Range(Get(returned, name).columns)
        /\ "label" \notin Range(Get(returned, name).columns)
    /\ Cardinality(RowsWhere(Get(returned, "survey").rows, "type",
                             "select_one form_language")) = 1
    /\ Cardinality(RowsWhere(Get(returned, "choices").rows, "list_name",
                             "form_language")) = Len(headers)

\* What C13 says of a call without languages.
MonolingualSpec ==
    /\ \A name \in {"survey", "choices"} : "label" \in Range(Get(returned, name).columns)
    /\ Get(returned, "survey").rows = <<>>
    /\ Get(returned, "choices").rows = <<>>

\* C13, as stated: for every non-empty language list the returned spec has
\* default_language equal to the first resolved header, label::<h> for every
\* resolved header and no bare label in the survey and choices columns, one
\* select_one form_language survey row and one form_language choices row per
\* resolved language; with no languages the bare label is kept and there is
\* no selector or choice row.
C13_NonEmptyList ==
    Built => IF languages # <<>>
             THEN ResolvedHeaders # <<>> /\ MultilingualSpec(ResolvedHeaders)
             ELSE MonolingualSpec

\* C13, amended: the same, for every language list with at least one entry
\* that resolves to a header; a list with no such entry (empty, or of blank
\* entries only) gives the spec of a call without languages.
C13_NewFormSpec ==
    Built => IF ResolvedHeaders # <<>>
             THEN MultilingualSpec(ResolvedHeaders)
             ELSE MonolingualSpec

\* A list of two entries that resolve to two headers has been built from.
C13_Witness ==
    /\ Built
    /\ Len(languages) = 2
    /\ Len(ResolvedHeaders) = 2
    /\ Get(Get(returned, "settings").rows[1], "default_language") = ResolvedHeaders[1]

(***************************************************************************)
(* add_calculations_and_conditions and merge_form_spec on the caller's     *)
(* objects (src/agent.py:538-670)                                          *)
(*                                                                         *)
(* Both normalize a deep copy of their arguments.  The lists of a          *)
(* normalized spec are copies in any case (line 343), so what a call could *)
(* share with its caller are the row dicts: they are in the heap.          *)
(***************************************************************************)

\* The addresses of the rows of a spec.
RowAddrs(spec) ==
    LET sheets == _normalize_form_spec(spec)
    IN UNION {Range(sheets[i][2].rows) : i \in DOMAIN sheets}

\* A sheet value with its row addresses replaced.
RelocateSheet(v, f) ==
    IF IsList(v) THEN List([i \in DOMAIN v[2] |-> f[v[2][i]]])
    ELSE IF IsDict(v)
    THEN Dict([i \in DOMAIN v[2] |->
                IF v[2][i][1] = "rows"
                THEN <<"rows", List([j \in DOMAIN v[2][i][2][2] |-> f[v[2][i][2][2][j]]])>>
                ELSE v[2][i]])
    ELSE v

RelocateSpec(spec, f) ==
    [i \in DOMAIN spec |->
        <<spec[i][1],
          IF spec[i][1] = "sheets" /\ IsDict(spec[i][2])
          THEN Dict([j \in DOMAIN spec[i][2][2] |->
                        <<spec[i][2][2][j][1], RelocateSheet(spec[i][2][2][j][2], f)>>])
          ELSE RelocateSheet(spec[i][2], f)>>]

\* No copy: the same objects.
SameObjects(spec, h) == [heap |-> h, spec |-> spec]

\* copy.deepcopy(spec): every row dict gets a copy at a fresh address (a dict
\* referred to twice is copied once), and the copy of the spec refers to the
\* copies.
deepcopy(spec, h) ==
    LET addrs == RowAddrs(spec)
        fresh == [a \in addrs |-> Len(h) + Cardinality({b \in addrs : b <= a})]
    IN [heap |-> h \o [k \in 1..Cardinality(addrs) |->
                        h[CHOOSE a \in addrs : fresh[a] = Len(h) + k]],
        spec |-> RelocateSpec(spec, fresh)]

\* {**d, **more}: d updated with the items of more, in order
RECURSIVE Update(_, _)
Update(d, more) ==
    IF more = <<>> THEN d ELSE Update(Put(d, Head(more)[1], Head(more)[2]), Tail(more))

\* d.setdefault(k, v)
SetDefault(d, k, v) == IF k \in Keys(d) THEN d ELSE Put(d, k, v)

\* A calculation that line 575 accepts when it has a name.
HasName(calc) == Truthy(Get(calc, "name"))

\* A calculation that line 575 accepts.
ValidCalculation(calc) == Truthy(Get(calc, "name")) /\ Truthy(Get(calc, "calculation"))

\* The row built from a calculation (lines 577-578)
CalculationRow(calc) ==
    SetDefault(Update(<< <<"type", "calculate">> >>, calc), "label",
               "Calculation for " \o Get(calc, "name"))

\* Lines 572-583 over valid calculations: st = [heap, rows, columns, added]
RECURSIVE AddCalculations(_, _)
AddCalculations(calculations, st) ==
    IF calculations = <<>> THEN st
    ELSE Bind(CalculationRow(Head(calculations)), LAMBDA row :
         Bind([heap |-> Append(st.heap, row),
               rows |-> Append(st.rows, Len(st.heap) + 1),
               columns |-> ExtendUnseen(st.columns, [i \in DOMAIN row |-> row[i][1]]),
               added |-> Append(st.added, Get(Head(calculations), "name"))],
              LAMBDA next : AddCalculations(Tail(calculations), next)))

\* targets (line 587): name -> the address of the last row of that name.
Targets(h, rows) ==
    LET named == {i \in DOMAIN rows : Truthy(Get(h[rows[i]], "name"))}
    IN [name \in {Get(h[rows[i]], "name") : i \in named} |->
          rows[CHOOSE i \in named :
                /\ Get(h[rows[i]], "name") = name
                /\ \A j \in named : Get(h[rows[j]], "name") = name => j <= i]]

\* Lines 593-598: the items of a condition, but "target", put into the row.
WithoutTarget(cond) == SelectSeq(cond, LAMBDA kv : kv[1] # "target")

\* Lines 588-599: st = [heap, columns, updated]
RECURSIVE ApplyConditions(_, _, _)
ApplyConditions(conditions, targets, st) ==
    IF conditions = <<>> THEN st
    ELSE LET cond == Head(conditions)
             target == Get(cond, "target")
         IN IF ~Truthy(target) \/ target \notin DOMAIN targets
            THEN ApplyConditions(Tail(conditions), targets, st)
            ELSE Bind(WithoutTarget(cond), LAMBDA items :
                 Bind([heap |-> [st.heap EXCEPT ![targets[target]] = Update(@, items)],
                       columns |-> ExtendUnseen(st.columns,
                                      [i \in DOMAIN items |-> items[i][1]]),
                       updated |-> Append(st.updated, target)],
                      LAMBDA next : ApplyConditions(Tail(conditions), targets, next)))

\* Lines 602-605
SurveyOrder(cols) ==
    ExtendUnseen(SelectSeq(FirstValue(_PREFERRED_COLUMN_ORDER, "survey"),
                           LAMBDA c : c \in Range(cols)), cols)

\* {"sheets": spec} as a form_spec value
ToFormSpec(sheets) ==
    << <<"sheets",
         Dict([i \in DOMAIN sheets |->
                <<sheets[i][1],
                  Dict(<< <<"columns", List(sheets[i][2].columns)>>,
                          <<"rows", List(sheets[i][2].rows)>> >>)>>])>> >>

\* The calculations before the first one that line 575 rejects.
RECURSIVE ValidPrefix(_)
ValidPrefix(calculations) ==
    IF calculations = <<>> \/ ~ValidCalculation(Head(calculations)) THEN <<>>
    ELSE <<Head(calculations)>> \o ValidPrefix(Tail(calculations))

\* add_calculations_and_conditions(form_spec, calculations, conditions=...):
\* the heap it leaves and what it returns or raises.
add_calculations_and_conditions(spec_arg, h, calculations, conditions) ==
    IF calculations = <<>> /\ conditions = <<>>
    THEN [heap |-> h, returned |-> Raised("ValueError")]
    ELSE Bind(deepcopy(spec_arg, h), LAMBDA copied :
         Bind(_normalize_form_spec(copied.spec), LAMBDA normalized_ :
         Bind(IF "survey" \in Keys(normalized_) THEN normalized_
              ELSE Put(normalized_, "survey",
                       Sheet(FirstValue(_PREFERRED_COLUMN_ORDER, "survey"), <<>>)),
              LAMBDA spec :
         Bind(Get(spec, "survey"), LAMBDA survey :
         Bind(ValidPrefix(calculations), LAMBDA valid :
         Bind(AddCalculations(valid,
                  [heap |-> copied.heap, rows |-> survey.rows,
                   columns |-> IF survey.columns # <<>> THEN survey.columns
                               ELSE FirstValue(_PREFERRED_COLUMN_ORDER, "survey"),
                   added |-> <<>>]),
              LAMBDA calculated :
         IF Len(valid) < Len(calculations)
         THEN [heap |-> calculated.heap, returned |-> Raised("ValueError")]
         ELSE
         Bind(Targets(calculated.heap, calculated.rows), LAMBDA targets :
         Bind(ApplyConditions(conditions, targets,
                  [heap |-> calculated.heap, columns |-> calculated.columns,
                   updated |-> <<>>]),
              LAMBDA applied :
         Bind(SurveyOrder(applied.columns), LAMBDA ordered_ :
              [heap |-> applied.heap,
               returned |-> [form_spec |-> ToFormSpec(Put(spec, "survey",
                                               Sheet(ordered_, calculated.rows))),
                             added_calculations |-> calculated.added,
                             updated_targets |-> applied.updated,
                             survey_columns |-> ordered_]])))))))))

\* The sheets of a normalized spec with the row dicts for the addresses.
DerefSheets(sheets, h) ==
    [i \in DOMAIN sheets |->
        <<sheets[i][1], Sheet(sheets[i][2].columns, Deref(h, sheets[i][2].rows))>>]

\* merge_form_spec(base_spec, addition_spec, dedupe_by_name=dedupe) on the
\* caller's objects: lines 627-628 copy both arguments, the merge works on
\* the copies.  The result is given by the values of its rows.
MergeCopies(base_arg, extra_arg, h, dedupe) ==
    LET base == deepcopy(base_arg, h)
        extra == deepcopy(extra_arg, base.heap)
        result == merge_form_spec(
                      DerefSheets(_normalize_form_spec(base.spec), extra.heap),
                      DerefSheets(_normalize_form_spec(extra.spec), extra.heap), dedupe)
    IN [heap |-> extra.heap, merged_spec |-> result.merged_spec, summary |-> result.summary]

MaxCalculations == 2
MaxConditions == 1

CalculationInputs ==
    { << <<"name", "total">>, <<"calculation", "1 + 1">> >>,
      << <<"name", "q1">>, <<"calculation", "${q2}">>, <<"label", "Copy">> >>,
      << <<"name", "half">> >>,
      << <<"calculation", "2">>, <<"name", "">> >> }

ConditionInputs ==
    { << <<"target", "q1">>, <<"relevant", "${q2} > 0">> >>,
      << <<"target", "total">>, <<"constraint", ". > 1">>, <<"name", "sum">> >>,
      << <<"target", "nobody">>, <<"required", "yes">> >> }

LogicBaseInputs ==
    { <<>>,
      << <<"survey", Sheet(<<"type", "name", "label">>,
                           << << <<"type", "text">>, <<"name", "q1">>, <<"label", "One">> >>,
                              << <<"type", "integer">>, <<"name", "q2">> >> >>)>>,
         <<"choices", Sheet(<<"list_name", "name", "label">>,
                            << << <<"list_name", "yn">>, <<"name", "yes">> >> >>)>> >>,
      << <<"survey", Sheet(<<>>,
                           << << <<"name", "q1">>, <<"type", "text">> >>,
                              << <<"type", "note">>, <<"name", "q1">> >> >>)>> >>,
      << <<"choices", Sheet(<<"list_name", "name">>,
                            << << <<"list_name", "yn">>, <<"name", "no">> >> >>)>> >> }

LogicAdditionInputs ==
    { << <<"survey", Sheet(<<"type", "name", "hint">>,
                           << << <<"type", "text">>, <<"name", "q2">> >>,
                              << <<"type", "text">>, <<"name", "q3">>, <<"hint", "h">> >> >>)>> >>,
      << <<"entities", Sheet(<<"list_name">>, << << <<"list_name", "e">> >> >>)>> >> }

\* A form_spec value for allocated sheets: {"sheets": {...}} or the flat mapping.
Shaped(sheets, wrapped) == IF wrapped THEN << <<"sheets", Dict(sheets)>> >> ELSE sheets

InitLogic ==
    /\ pc = "start"
    /\ CacheIdle
    /\ \E base \in LogicBaseInputs, addition \in LogicAdditionInputs, wrapped \in BOOLEAN :
        LET first == Allocate(base, <<>>, <<>>)
            second == Allocate(addition, first.heap, <<>>)
        IN /\ heap = second.heap
           /\ form_spec = Shaped(first.sheets, wrapped)
           /\ addition_spec = Shaped(second.sheets, ~wrapped)
    /\ heap_before = heap
    /\ args = <<>>
    /\ returned = <<>>
    /\ workbook = <<>>
    /\ normalized_sheets = <<>>
    /\ base_spec = <<>> /\ dedupe_by_name = TRUE /\ merged_spec = <<>> /\ summary = <<>>
    /\ LangIdle /\ OrderIdle /\ NormIdle

\* A call add_calculations_and_conditions(spec_arg, calculations, conditions=...)
LogicCall(spec_arg, calculations, conditions, after) ==
    LET done == add_calculations_and_conditions(spec_arg, heap, calculations, conditions)
    IN /\ args' = [form_spec |-> spec_arg, calculations |-> calculations,
                   conditions |-> conditions]
       /\ heap_before' = heap
       /\ heap' = done.heap
       /\ returned' = done.returned
       /\ pc' = IF IsRaised(done.returned) THEN "raised" ELSE after
       /\ UNCHANGED <<form_spec, addition_spec, base_spec, dedupe_by_name, merged_spec,
                      summary, workbook, normalized_sheets, langVars, orderVars, normVars, cacheVars>>

\* The caller adds logic to its form_spec.
AddLogic ==
    /\ pc = "start"
    /\ \E calculations \in SeqsUpTo(CalculationInputs, MaxCalculations),
          conditions \in SeqsUpTo(ConditionInputs, MaxConditions) :
        LogicCall(form_spec, calculations, conditions, "added")

\* The caller hands the spec it got back to a second call, with one condition.
AddLogicAgain ==
    /\ pc = "added"
    /\ \E cond \in ConditionInputs :
        LogicCall(returned.form_spec, <<>>, <<cond>>, "added again")

\* The caller merges its addition into its form_spec, before or after it
\* added logic.
MergeSpecs ==
    /\ pc \in {"start", "added"}
    /\ \E d \in BOOLEAN :
        LET done == MergeCopies(form_spec, addition_spec, heap, d)
        IN /\ dedupe_by_name' = d
           /\ heap_before' = heap
           /\ heap' = done.heap
           /\ merged_spec' = done.merged_spec
           /\ summary' = done.summary
    /\ pc' = "merged"
    /\ UNCHANGED <<form_spec, addition_spec, base_spec, args, returned, workbook,
                   normalized_sheets, langVars, orderVars, normVars, cacheVars>>

NextLogic == AddLogic \/ AddLogicAgain \/ MergeSpecs

SpecLogic == InitLogic /\ [][NextLogic]_vars

\* Every object that existed when the last call was made is as it was.
ObjectsUnchanged == \A a \in DOMAIN heap_before : heap[a] = heap_before[a]

\* The base sheets that the addition does not name are in the merged spec
\* with the columns and rows they had.
OtherSheetsKept ==
    LET base == _normalize_form_spec(form_spec)
        extra == _normalize_form_spec(addition_spec)
    IN \A i \in DOMAIN base :
        base[i][1] \notin Keys(extra) =>
            /\ base[i][1] \in Keys(merged_spec)
            /\ Get(merged_spec, base[i][1]) =
                 Sheet(base[i][2].columns, Deref(heap_before, base[i][2].rows))

\* C15: after every call of add_calculations_and_conditions or
\* merge_form_spec, in any sequence, the row dicts of the specs passed in
\* are unchanged (their lists are never handed to the code that appends),
\* and the merged spec holds the base sheets that the addition does not name
\* with the same columns and rows.
C15_ArgumentsUnchanged ==
    /\ pc # "start" => ObjectsUnchanged
    /\ pc = "merged" => OtherSheetsKept

\* A condition has been applied to a row copied from the caller's survey,
\* and a merge has kept a base sheet that the addition does not name.
C15_Witness ==
    /\ pc = "merged"
    /\ args # <<>>
    /\ "q1" \in Range(returned.updated_targets)
    /\ \E i \in DOMAIN _normalize_form_spec(form_spec) :
        /\ _normalize_form_spec(form_spec)[i][1] \notin Keys(_normalize_form_spec(addition_spec))
        /\ _normalize_form_spec(form_spec)[i][2].rows # <<>>

\* The arguments of the last call that line 558 or line 575 rejects.
Rejected ==
    \/ args.calculations = <<>> /\ args.conditions = <<>>
    \/ \E i \in DOMAIN args.calculations :
        \/ ~Truthy(Get(args.calculations[i], "name"))
        \/ ~Truthy(Get(args.calculations[i], "calculation"))

\* C20: a call of add_calculations_and_conditions with no calculation and
\* no condition, or with a calculation lacking a non-empty name or
\* calculation, raises ValueError and nothing else; it returns no result and
\* leaves every object of the caller as it was, whatever calculations came
\* before the bad one.
C20_FailFast ==
    pc \in {"added", "added again", "raised"} =>
        /\ Rejected <=> IsRaised(returned)
        /\ Rejected => returned = Raised("ValueError") /\ ObjectsUnchanged

\* A call whose second calculation is bad and whose first is good has raised.
C20_Witness ==
    /\ pc = "raised"
    /\ Len(args.calculations) = 2
    /\ ValidCalculation(args.calculations[1])
    /\ ~ValidCalculation(args.calculations[2])
    /\ Len(heap) > Len(heap_before)

(***************************************************************************)
(* The two shapes of a form_spec (src/agent.py:322-344)                    *)
(***************************************************************************)

MaxSheets == 2

\* Two row dicts that the sheets refer to.
ShapeHeap ==
    << << <<"type", "text">>, <<"name", "q1">> >>,
       << <<"list_name", "yn">>, <<"name", "yes">> >> >>

ShapeSheetNames == {"survey", "choices", "sheets"}

\* A bare row list, or a mapping with some of columns, headers and rows.
ShapeSheetInputs ==
    { List(<<1, 2>>),
      List(<<>>),
      Dict(<< <<"columns", List(<<"type", "name">>)>>, <<"rows", List(<<1>>)>> >>),
      Dict(<< <<"headers", List(<<"list_name", "name">>)>>, <<"rows", List(<<2>>)>> >>),
      Dict(<< <<"columns", List(<<>>)>>, <<"headers", List(<<"name">>)>>,
              <<"rows", List(<<2, 1>>)>> >>),
      Dict(<< <<"columns", List(<<"type">>)>>, <<"headers", List(<<"name">>)>> >>),
      Dict(<< <<"rows", List(<<1>>)>> >>),
      Dict(<< <<"columns", List(<<>>)>>, <<"rows", List(<<>>)>> >>),
      Dict(<<>>) }

\* The mappings of up to n distinct sheet names to sheets.
RECURSIVE SheetMappings(_)
SheetMappings(n) ==
    IF n = 0 THEN {<<>>}
    ELSE LET shorter == SheetMappings(n - 1)
         IN shorter \cup
            {Append(S, <<name, sheet>>) :
                S \in {T \in shorter : Len(T) = n - 1},
                name \in ShapeSheetNames, sheet \in ShapeSheetInputs}

InitShape ==
    /\ pc = "start"
    /\ CacheIdle
    /\ heap = ShapeHeap
    /\ heap_before = heap
    /\ form_spec \in {S \in SheetMappings(MaxSheets) :
                        \A i, j \in DOMAIN S : S[i][1] = S[j][1] => i = j}
    /\ args \in [other_keys : {<<>>, << <<"title", Str("Health Survey")>> >>}]
    /\ returned = <<>>
    /\ workbook = <<>>
    /\ normalized_sheets = <<>>
    /\ LangIdle /\ OrderIdle /\ NormIdle /\ MergeIdle

\* The caller normalizes its sheets S = form_spec in both shapes, with the
\* same other keys beside them.
NormalizeShapes ==
    /\ pc = "start"
    /\ returned' =
        [nested |-> _normalize_form_spec(<< <<"sheets", Dict(form_spec)>> >> \o args.other_keys),
         flat |-> _normalize_form_spec(form_spec \o args.other_keys)]
    /\ pc' = "shaped"
    /\ UNCHANGED <<heap, heap_before, form_spec, args, workbook, normalized_sheets,
                   langVars, orderVars, mergeVars, normVars, cacheVars>>

NextShape == NormalizeShapes

SpecShape == InitShape /\ [][NextShape]_vars

BothShaped == pc = "shaped"

\* The list under key k of a sheet mapping, empty when the key is absent.
ListUnder(sheet, k) ==
    IF \E i \in DOMAIN sheet[2] : sheet[2][i][1] = k
    THEN sheet[2][CHOOSE i \in DOMAIN sheet[2] : sheet[2][i][1] = k][2][2]
    ELSE <<>>

\* How C16 says a sheet is read.
ReadAsStated(sheet) ==
    IF sheet[1] = "list" THEN [columns |-> <<>>, rows |-> sheet[2]]
    ELSE [columns |-> IF ListUnder(sheet, "columns") # <<>>
                      THEN ListUnder(sheet, "columns") ELSE ListUnder(sheet, "headers"),
          rows |-> ListUnder(sheet, "rows")]

SheetsReadAsStated ==
    /\ Len(returned.nested) = Len(form_spec)
    /\ \A i \in DOMAIN form_spec :
        returned.nested[i] = <<form_spec[i][1], ReadAsStated(form_spec[i][2])>>

\* S has a sheet named "sheets" that is a mapping.
HasSheetNamedSheets ==
    \E i \in DOMAIN form_spec : form_spec[i][1] = "sheets" /\ form_spec[i][2][1] = "dict"

\* C16, as stated: for every mapping S of sheet names to sheets,
\* normalizing {"sheets": S} and normalizing the flat S give the same
\* result; a bare list becomes a sheet with that row list and no columns,
\* headers is read when columns is absent or empty, and missing columns and
\* rows are empty lists.
C16_EveryMapping ==
    BothShaped => returned.nested = returned.flat /\ SheetsReadAsStated

\* C16, amended: the two shapes give the same result for every S that has
\* no mapping under the sheet name "sheets"; the sheets of {"sheets": S} are
\* read as stated for every S.
C16_ShapeEquivalence ==
    BothShaped =>
        /\ ~HasSheetNamedSheets => returned.nested = returned.flat
        /\ SheetsReadAsStated

\* A mapping with a bare list and a sheet whose columns are empty and whose
\* headers are not has been normalized in both shapes, beside another key.
C16_Witness ==
    /\ BothShaped
    /\ ~HasSheetNamedSheets
    /\ args.other_keys # <<>>
    /\ \E i, j \in DOMAIN form_spec :
        /\ form_spec[i][2] = List(<<1, 2>>)
        /\ form_spec[j][2][1] = "dict"
        /\ ListUnder(form_spec[j][2], "columns") = <<>>
        /\ ListUnder(form_spec[j][2], "headers") # <<>>
        /\ returned.flat[j][2].columns = <<"name">>

(***************************************************************************)
(* load_xlsform (src/agent.py:305-306, 759-801)                            *)
(*                                                                         *)
(* The workbook read is a dict: sheet name -> the rows that iter_rows      *)
(* yields, each a tuple of cell values (None for an empty cell).           *)
(***************************************************************************)

\* Every row counts as one with content.
AnyRowHasContent(values) == TRUE

\* _row_has_content(values)
_row_has_content(values) == \E i \in DOMAIN values : ~Blank(values[i])

\* Lines 784-785: the header cells as text, the blank ones dropped.
HeaderOf(cells) ==
    SelectSeq([i \in DOMAIN cells |-> IF cells[i] # None THEN Strip(cells[i]) ELSE ""],
              LAMBDA col : col # "")

Min(a, b) == IF a <= b THEN a ELSE b

\* Line 791: {header[i]: raw[i] for i in range(min(len(header), len(raw)))}
RECURSIVE RowDict(_, _, _, _)
RowDict(header, raw, i, acc) ==
    IF i > Min(Len(header), Len(raw)) THEN acc
    ELSE RowDict(header, raw, i + 1, Put(acc, header[i], raw[i]))

\* Lines 780-794 for one sheet
LoadSheet(rows) ==
    IF rows = <<>> THEN Sheet(<<>>, <<>>)
    ELSE LET header == HeaderOf(Head(rows))
             kept == SelectSeq(Tail(rows), _row_has_content)
         IN Sheet(header, [k \in DOMAIN kept |-> RowDict(header, kept[k], 1, <<>>)])

\* Lines 775-794: the selected sheets that the workbook has
RECURSIVE LoadSheets(_, _, _)
LoadSheets(selected, wb, sheets) ==
    IF selected = <<>> THEN sheets
    ELSE LoadSheets(Tail(selected), wb,
            IF Head(selected) \in Keys(wb)
            THEN Put(sheets, Head(selected), LoadSheet(Get(wb, Head(selected))))
            ELSE sheets)

\* load_xlsform(file_path, sheet_names=...) on a file that holds wb
load_xlsform(a, wb) ==
    IF ~a.exists THEN Raised("FileNotFoundError")
    ELSE LET selected == IF a.sheet_names # <<>> THEN a.sheet_names
                         ELSE [i \in DOMAIN wb |-> wb[i][1]]
             sheets == LoadSheets(selected, wb, <<>>)
         IN [path |-> Resolve(a.file_path),
             sheets |-> sheets,
             sheet_names |-> [i \in DOMAIN sheets |-> sheets[i][1]],
             row_counts |-> [i \in DOMAIN sheets |->
                                <<sheets[i][1], Len(sheets[i][2].rows)>>]]

MaxDataRows == 3

\* Header rows: full, with blank cells before, between and after the names,
\* with spaces around a name, and blank throughout.
HeaderInputs ==
    { <<"type", "name", "label">>,
      <<"type", None, "name">>,
      <<None, "name", "">>,
      <<" name ", "type">>,
      <<"name", " ", "label">>,
      <<"type">>,
      <<None, None>> }

\* Data rows: full, blank throughout, with blank cells, and short.
DataRowInputs ==
    { <<"text", "q1", "Q">>,
      <<None, "", " ">>,
      <<"note", None, "n1">>,
      <<None, "b">>,
      <<"x">> }

LoadArgInputs ==
    { [file_path |-> "form.xlsx", exists |-> TRUE, sheet_names |-> <<>>],
      [file_path |-> "form.xlsx", exists |-> TRUE,
       sheet_names |-> <<"choices", "survey", "entities">>] }

InitLoad ==
    /\ pc = "start"
    /\ CacheIdle
    /\ \/ /\ args \in LoadArgInputs
          /\ \E header \in HeaderInputs, data \in SeqsUpTo(DataRowInputs, MaxDataRows) :
                workbook = << <<"survey", <<header>> \o data>>, <<"choices", <<>> >> >>
       \/ /\ args = [file_path |-> "gone.xlsx", exists |-> FALSE, sheet_names |-> <<>>]
          /\ workbook = <<>>
    /\ heap = <<>> /\ heap_before = <<>> /\ form_spec = <<>> /\ returned = <<>>
    /\ normalized_sheets = <<>>
    /\ LangIdle /\ OrderIdle /\ NormIdle /\ MergeIdle

LoadXlsform ==
    /\ pc = "start"
    /\ returned' = load_xlsform(args, workbook)
    /\ pc' = IF args.exists THEN "loaded" ELSE "raised"
    /\ UNCHANGED <<heap, heap_before, form_spec, args, workbook, normalized_sheets,
                   langVars, orderVars, mergeVars, normVars, cacheVars>>

NextLoad == LoadXlsform

SpecLoad == InitLoad /\ [][NextLoad]_vars

Loaded == pc = "loaded"

\* The data rows of the survey sheet of the file, and those with a non-blank cell.
DataRows == Tail(Get(workbook, "survey"))
ContentRows == SelectSeq(DataRows, LAMBDA raw : \E i \in DOMAIN raw : ~Blank(raw[i]))
ParsedRows == Get(returned.sheets, "survey").rows

\* C18: load_xlsform returns, for the survey sheet, one parsed row for each
\* data row with at least one non-blank cell, in sheet order (the values of
\* the k-th parsed row are cells of the k-th such data row), none for a
\* blank data row, and row_counts is the number of parsed rows.
C18_OneRowPerContentRow ==
    Loaded =>
        /\ Len(ParsedRows) = Len(ContentRows)
        /\ \A k \in DOMAIN ParsedRows :
            \A i \in DOMAIN ParsedRows[k] : ParsedRows[k][i][2] \in Range(ContentRows[k])
        /\ Get(returned.row_counts, "survey") = Len(ParsedRows)
        /\ Get(returned.row_counts, "choices") = 0

\* Three data rows of which one is blank have given two parsed rows.
C18_Witness ==
    /\ Loaded
    /\ Len(DataRows) = 3
    /\ Len(ContentRows) = 2
    /\ ~_row_has_content(DataRows[2])
    /\ Get(returned.row_counts, "survey") = 2
    /\ ParsedRows[1] # ParsedRows[2]

\* The header cell at position i of the survey sheet, as text.
HeaderText(i) ==
    LET cell == Head(Get(workbook, "survey"))[i]
    IN IF cell # None THEN Strip(cell) ELSE ""

\* C19: every parsed row maps the non-blank header name at position i to
\* the data cell at position i, has no key for a cell under a blank header
\* cell, and has no key for a header beyond the end of a short row.
C19_ByHeaderPosition ==
    Loaded =>
        \A k \in DOMAIN ParsedRows :
            /\ \A i \in DOMAIN Head(Get(workbook, "survey")) :
                HeaderText(i) # "" =>
                    IF i <= Len(ContentRows[k])
                    THEN /\ HeaderText(i) \in Keys(ParsedRows[k])
                         /\ Get(ParsedRows[k], HeaderText(i)) = ContentRows[k][i]
                    ELSE HeaderText(i) \notin Keys(ParsedRows[k])
            /\ Keys(ParsedRows[k]) \subseteq
                 {HeaderText(i) : i \in DOMAIN Head(Get(workbook, "survey"))} \ {""}

(***************************************************************************)
(* The template cache (src/agent.py:117-125, 831-842)                      *)
(*                                                                         *)
(* Calls of write_xlsform without base_form_path, one after the other or   *)
(* at the same time.  The cache file is a list of blocks; urlretrieve      *)
(* opens the URL, opens the file for writing (which empties it) and writes *)
(* the blocks it reads, each writer at its own offset.  A caller is at     *)
(* "idle", "exists" (line 119), "urlopen", "open", "read" (line 123),      *)
(* "load" (line 838), "wrote" or "raised".                                 *)
(***************************************************************************)

Callers == {1, 2}

\* The number of blocks of the template.
TemplateBlocks == 2

Block == "block"
Hole == "hole"

\* The file holds the whole template.
Complete(file) == file.exists /\ file.blocks = [i \in 1..TemplateBlocks |-> Block]

\* open(filename, 'wb'): the file is there and empty.
OpenForWriting(file) == [exists |-> TRUE, blocks |-> <<>>]

\* tfp.write(block) at the offset of the writer: what lies between the end
\* of the file and the offset is a hole.
WriteBlock(file, offset) ==
    [exists |-> TRUE,
     blocks |-> [i \in 1..(IF offset + 1 > Len(file.blocks) THEN offset + 1
                           ELSE Len(file.blocks)) |->
                    IF i = offset + 1 THEN Block
                    ELSE IF i <= Len(file.blocks) THEN file.blocks[i] ELSE Hole]]

\* The sheets every caller writes.
TemplateFormSpecs ==
    {<< <<name, Sheet(<<"type", "name", "label">>,
                      << << <<"type", "text">>, <<"name", "q1">>, <<"label", "Q1">> >> >>)>> >> :
        name \in {"survey", "Survey"}}

NotCalled ==
    [pc |-> "idle", base_path |-> FALSE, offset |-> 0, download |-> "none",
     after_failure |-> FALSE, overlapped |-> FALSE, workbook |-> <<>>, returned |-> <<>>]

InTheCall(c) == callers[c].pc \notin {"idle", "wrote", "raised"}

InitTemplate ==
    /\ pc = "start"
    /\ cache_file = [exists |-> FALSE, blocks |-> <<>>]
    /\ callers = [c \in Callers |-> NotCalled]
    /\ \E sheets \in TemplateFormSpecs :
        LET caller == Allocate(sheets, <<>>, <<>>)
        IN /\ heap = caller.heap
           /\ form_spec = << <<"sheets", Dict(caller.sheets)>> >>
    /\ heap_before = heap
    /\ args \in {[output_path |-> "form.xlsx", preserve_additional_sheets |-> p] :
                    p \in BOOLEAN}
    /\ returned = <<>>
    /\ workbook = <<>>
    /\ normalized_sheets = <<>>
    /\ LangIdle /\ OrderIdle /\ NormIdle /\ MergeIdle

TemplateUnchanged ==
    UNCHANGED <<pc, heap, heap_before, form_spec, args, returned, workbook,
                normalized_sheets, langVars, orderVars, mergeVars, normVars>>

\* write_xlsform(form_spec, output_path) is called: lines 821-834 and the
\* test of line 119.
CallWriteXlsform(c) ==
    /\ callers[c].pc = "idle"
    /\ callers' =
        [d \in Callers |->
            IF d = c
            THEN [callers[c] EXCEPT
                    !.pc = "exists",
                    !.after_failure = \E e \in Callers : callers[e].download = "failed",
                    !.overlapped = \E e \in Callers : InTheCall(e)]
            ELSE IF InTheCall(d) THEN [callers[d] EXCEPT !.overlapped = TRUE]
            ELSE callers[d]]
    /\ UNCHANGED cache_file
    /\ TemplateUnchanged

\* Lines 119-120: the cache file exists, its path is returned.
CacheHit(c) ==
    /\ callers[c].pc = "exists"
    /\ cache_file.exists
    /\ callers' = [callers EXCEPT ![c].pc = "load", ![c].base_path = TRUE]
    /\ UNCHANGED cache_file
    /\ TemplateUnchanged

\* Line 119: no cache file, urlretrieve is called.
CacheMiss(c) ==
    /\ callers[c].pc = "exists"
    /\ ~cache_file.exists
    /\ callers' = [callers EXCEPT ![c].pc = "urlopen"]
    /\ UNCHANGED cache_file
    /\ TemplateUnchanged

\* urlretrieve: urlopen(url) answers.
UrlOpen(c) ==
    /\ callers[c].pc = "urlopen"
    /\ callers' = [callers EXCEPT ![c].pc = "open"]
    /\ UNCHANGED cache_file
    /\ TemplateUnchanged

\* urlretrieve: urlopen(url) raises; lines 124-125 return None.
UrlOpenFails(c) ==
    /\ callers[c].pc = "urlopen"
    /\ callers' = [callers EXCEPT ![c].pc = "load", ![c].download = "failed"]
    /\ UNCHANGED cache_file
    /\ TemplateUnchanged

\* urlretrieve: open(filename, 'wb')
OpenCacheFile(c) ==
    /\ callers[c].pc = "open"
    /\ cache_file' = OpenForWriting(cache_file)
    /\ callers' = [callers EXCEPT ![c].pc = "read", ![c].offset = 0]
    /\ TemplateUnchanged

\* urlretrieve: a block is read and written.
RetrieveBlock(c) ==
    /\ callers[c].pc = "read"
    /\ callers[c].offset < TemplateBlocks
    /\ cache_file' = WriteBlock(cache_file, callers[c].offset)
    /\ callers' = [callers EXCEPT ![c].offset = @ + 1]
    /\ TemplateUnchanged

\* urlretrieve: the connection breaks or ends early; the file is closed as
\* it is, the exception is caught by lines 124-125, which return None.
RetrieveFails(c) ==
    /\ callers[c].pc = "read"
    /\ callers[c].offset < TemplateBlocks
    /\ callers' = [callers EXCEPT ![c].pc = "load", ![c].download = "failed"]
    /\ UNCHANGED cache_file
    /\ TemplateUnchanged

\* urlretrieve: the last block is written; line 123 returns the path.
RetrieveDone(c) ==
    /\ callers[c].pc = "read"
    /\ callers[c].offset = TemplateBlocks
    /\ callers' = [callers EXCEPT ![c].pc = "load", ![c].base_path = TRUE,
                                  ![c].download = "done"]
    /\ UNCHANGED cache_file
    /\ TemplateUnchanged

\* Lines 838-924 with the template: load_workbook(base_path) reads it, the
\* sheets are written to it.
LoadTemplate(c) ==
    /\ callers[c].pc = "load"
    /\ callers[c].base_path /\ Complete(cache_file)
    /\ \E done \in write_xlsform(form_spec, heap,
                      [output_path |-> args.output_path,
                       base_workbook |-> TemplateWorkbook,
                       preserve_additional_sheets |-> args.preserve_additional_sheets]) :
        callers' = [callers EXCEPT ![c].pc = "wrote", ![c].workbook = done.workbook,
                                   ![c].returned = done.returned]
    /\ UNCHANGED cache_file
    /\ TemplateUnchanged

\* Lines 838-839 on a file that is not the whole template: load_workbook
\* raises (zipfile.BadZipFile), and so does write_xlsform.
LoadBrokenTemplate(c) ==
    /\ callers[c].pc = "load"
    /\ callers[c].base_path /\ ~Complete(cache_file)
    /\ callers' = [callers EXCEPT ![c].pc = "raised",
                                  ![c].returned = Raised("BadZipFile")]
    /\ UNCHANGED cache_file
    /\ TemplateUnchanged

\* Lines 840-924 without a template: the sheets are written to a workbook
\* that has none.
WriteBlank(c) ==
    /\ callers[c].pc = "load"
    /\ ~callers[c].base_path
    /\ \E done \in write_xlsform(form_spec, heap,
                      [output_path |-> args.output_path,
                       base_workbook |-> <<>>,
                       preserve_additional_sheets |-> args.preserve_additional_sheets]) :
        callers' = [callers EXCEPT ![c].pc = "wrote", ![c].workbook = done.workbook,
                                   ![c].returned = done.returned]
    /\ UNCHANGED cache_file
    /\ TemplateUnchanged

NextTemplate ==
    \/ \E c \in Callers : CallWriteXlsform(c)
    \/ \E c \in Callers : CacheHit(c)
    \/ \E c \in Callers : CacheMiss(c)
    \/ \E c \in Callers : UrlOpen(c)
    \/ \E c \in Callers : UrlOpenFails(c)
    \/ \E c \in Callers : OpenCacheFile(c)
    \/ \E c \in Callers : RetrieveBlock(c)
    \/ \E c \in Callers : RetrieveFails(c)
    \/ \E c \in Callers : RetrieveDone(c)
    \/ \E c \in Callers : LoadTemplate(c)
    \/ \E c \in Callers : LoadBrokenTemplate(c)
    \/ \E c \in Callers : WriteBlank(c)

SpecTemplate == InitTemplate /\ [][NextTemplate]_vars

(***************************************************************************)
(* Properties of the template cache                                        *)
(***************************************************************************)

\* The names of the sheets of a workbook.
SheetNames(wb) == {wb[i][1] : i \in DOMAIN wb}

\* The call of c has ended.
Ended(c) == callers[c].pc \in {"wrote", "raised"}

\* C21: a call made without a base template whose download failed, and any
\* call made after a download failed, does not fail: it writes to an empty
\* workbook, and the workbook it saves holds exactly the sheets it wrote.
\* (Calls that do not overlap with another call.)
C21_GracefulDegradation ==
    \A c \in Callers :
        Ended(c) /\ ~callers[c].overlapped
        /\ (callers[c].download = "failed" \/ callers[c].after_failure)
        /\ callers[c].download # "done" =>
            /\ callers[c].pc = "wrote"
            /\ SheetNames(callers[c].workbook) = Keys(_normalize_form_spec(form_spec))

\* C26: when the callers race on an empty cache and no download fails, no
\* caller opens a cache file that is not a completely downloaded template,
\* and once every download is over the file is complete.
C26_CacheRace ==
    (\A c \in Callers : callers[c].download # "failed") =>
        /\ \A c \in Callers : callers[c].pc # "raised"
        /\ (cache_file.exists /\ \A c \in Callers : callers[c].pc \notin {"open", "read"})
             => Complete(cache_file)

(***************************************************************************)
(* Outline Generator (src/agent.py:389-535)                                *)
(***************************************************************************)

\* _label(text) and _hint(text) (lines 420-428): the bare field without
\* languages, else one key per language header.
Localized(field, headers, text) ==
    IF headers = <<>> THEN << <<field, text>> >>
    ELSE [i \in DOMAIN headers |-> <<field \o "::" \o headers[i], text>>]

_hint(headers, text) == Localized("hint", headers, text)

\* The objectives that get a row, all of them.
AllObjectives(objectives) == objectives

\* objectives[:5] (line 478)
FirstFive(objectives) == SubSeq(objectives, 1, Min(5, Len(objectives)))

\* Lines 434-442
OutlineSelectorRow(headers) ==
    << <<"type", "select_one form_language">>, <<"name", "form_language">> >>
    \o Localized("label", headers, "Select your preferred language")
    \o << <<"required", "yes">> >>

\* Lines 443-447
OutlineLanguageChoice(e, headers) ==
    << <<"list_name", "form_language">>,
       <<"name", IF e.code # "" THEN e.code ELSE _safe_form_id(e.header)>> >>
    \o Localized("label", headers, e.name)

\* A survey row of type, name and label.
Question(type, name, headers, text) ==
    << <<"type", type>>, <<"name", name>> >> \o Localized("label", headers, text)

\* A choice row.
Choice(list_name, name, headers, text) ==
    << <<"list_name", list_name>>, <<"name", name>> >> \o Localized("label", headers, text)

\* Lines 449-455
DemographicRows(headers) ==
    << Question("text", "respondent_name", headers, "Interviewer: enter respondent name"),
       Question("integer", "respondent_age", headers, "Respondent age")
           \o << <<"constraint", ". >= 0">> >>,
       Question("select_one gender_list", "respondent_gender", headers, "Respondent gender") >>

\* Lines 456-462
GenderChoices(headers) ==
    << Choice("gender_list", "female", headers, "Female"),
       Choice("gender_list", "male", headers, "Male"),
       Choice("gender_list", "other", headers, "Other / prefer not to say") >>

\* Lines 464-476
OpeningRows(topic, headers) ==
    << Question("note", "intro_topic", headers, "Survey: " \o topic),
       Question("select_one yes_no", "consent", headers, "Do you consent to participate?")
           \o << <<"required", "yes">>,
                 <<"constraint_message", "Consent is required to continue.">>,
                 <<"relevant", "">> >> >>

\* Lines 478-486: the row of the objective at place idx.
ObjectiveRow(idx, obj, headers) ==
    Question("text", "objective_" \o Char("12345678", idx), headers, "Question about: " \o obj)
    \o _hint(headers, "Capture details related to " \o obj)

\* Lines 488-507
ClosingRows(headers) ==
    << Question("select_one frequency_list", "usage_frequency", headers,
                "How often do you engage with this topic?"),
       Question("select_one satisfaction_list", "satisfaction_level", headers,
                "Overall satisfaction") \o _hint(headers, "Quick pulse check"),
       Question("text", "open_feedback", headers, "Any additional feedback?") >>

\* Lines 509-524
ClosingChoices(headers) ==
    << Choice("yes_no", "yes", headers, "Yes"),
       Choice("yes_no", "no", headers, "No"),
       Choice("frequency_list", "daily", headers, "Daily"),
       Choice("frequency_list", "weekly", headers, "Weekly"),
       Choice("frequency_list", "monthly", headers, "Monthly"),
       Choice("frequency_list", "rarely", headers, "Rarely"),
       Choice("frequency_list", "never", headers, "Never"),
       Choice("satisfaction_list", "very_satisfied", headers, "Very satisfied"),
       Choice("satisfaction_list", "satisfied", headers, "Satisfied"),
       Choice("satisfaction_list", "neutral", headers, "Neutral"),
       Choice("satisfaction_list", "dissatisfied", headers, "Dissatisfied"),
       Choice("satisfaction_list", "very_dissatisfied", headers, "Very dissatisfied") >>

\* design_survey_outline(topic, objectives=..., include_demographics=...,
\* languages=langs)
design_survey_outline(a, langs) ==
    Bind(_normalize_languages(langs), LAMBDA normalized_languages :
    Bind([i \in DOMAIN normalized_languages |-> normalized_languages[i].header],
         LAMBDA language_headers :
    Bind(FirstFive(a.objectives), LAMBDA asked :
        [topic |-> a.topic,
         objectives |-> a.objectives,
         languages |-> language_headers,
         survey_rows |->
            (IF normalized_languages # <<>>
             THEN <<OutlineSelectorRow(language_headers)>> ELSE <<>>)
            \o (IF a.include_demographics THEN DemographicRows(language_headers) ELSE <<>>)
            \o OpeningRows(a.topic, language_headers)
            \o [idx \in DOMAIN asked |-> ObjectiveRow(idx, asked[idx], language_headers)]
            \o ClosingRows(language_headers),
         choices_rows |->
            (IF normalized_languages # <<>>
             THEN [i \in DOMAIN normalized_languages |->
                      OutlineLanguageChoice(normalized_languages[i], language_headers)]
             ELSE <<>>)
            \o (IF a.include_demographics THEN GenderChoices(language_headers) ELSE <<>>)
            \o ClosingChoices(language_headers),
         notes |-> "Review wording, logic, and choice list names before writing XLSX."
                   \o (IF language_headers # <<>>
                       THEN " Translations are auto-generated for common terms; review topic-specific labels."
                       ELSE "")])))

MaxObjectives == 6

\* The text of the objective at place i.
ObjectiveText(i) == "reach " \o Char("12345678", i)

ObjectiveInputs == {[i \in 1..n |-> ObjectiveText(i)] : n \in 0..MaxObjectives}

OutlineLanguageInputs == {"", "fr", "English", "Norwegian", "kiswahili"}

OutlineArgInputs ==
    [topic : {"water", ""}, objectives : ObjectiveInputs, include_demographics : BOOLEAN]

\* The base specs an outline is merged into.
OutlineBaseInputs ==
    { << <<"survey", Sheet(<<"type", "name", "label">>,
                           << << <<"type", "note">>, <<"name", "welcome">>,
                                 <<"label", "Welcome">> >> >>)>>,
         <<"choices", Sheet(<<"list_name", "name", "label">>, <<>>)>> >> }

InitOutline ==
    /\ pc = "start"
    /\ CacheIdle
    /\ args \in OutlineArgInputs
    /\ languages \in SeqsUpTo(OutlineLanguageInputs, MaxLanguages)
    /\ base_spec \in OutlineBaseInputs
    /\ addition_spec = <<>> /\ dedupe_by_name = TRUE /\ merged_spec = <<>> /\ summary = <<>>
    /\ language = None /\ entry = NoEntry /\ normalized = <<>>
    /\ heap = <<>> /\ heap_before = <<>> /\ form_spec = <<>> /\ returned = <<>>
    /\ workbook = <<>> /\ normalized_sheets = <<>>
    /\ OrderIdle /\ NormIdle

DesignSurveyOutline ==
    /\ pc = "start"
    /\ returned' = design_survey_outline(args, languages)
    /\ pc' = "outlined"
    /\ UNCHANGED <<heap, heap_before, form_spec, args, workbook, normalized_sheets,
                   langVars, orderVars, mergeVars, normVars, cacheVars>>

\* What design_survey_outline returned, as a form_spec value.
OutlineAsFormSpec(out) ==
    << <<"topic", Str(out.topic)>>,
       <<"objectives", List([i \in DOMAIN out.objectives |-> Str(out.objectives[i])])>>,
       <<"languages", List([i \in DOMAIN out.languages |-> Str(out.languages[i])])>>,
       <<"survey_rows", List([i \in DOMAIN out.survey_rows |-> Dict(out.survey_rows[i])])>>,
       <<"choices_rows", List([i \in DOMAIN out.choices_rows |-> Dict(out.choices_rows[i])])>>,
       <<"notes", Str(out.notes)>> >>

\* The rows of the sheets are dicts (row.get exists, line 640).
RowsAreDicts(sheets) ==
    \A i \in DOMAIN sheets : \A j \in DOMAIN sheets[i][2].rows : IsDict(sheets[i][2].rows[j])

\* The sheets with their row dicts as the merger's model takes them.
RowValues(sheets) ==
    [i \in DOMAIN sheets |->
        <<sheets[i][1],
          Sheet(sheets[i][2].columns,
                [j \in DOMAIN sheets[i][2].rows |-> sheets[i][2].rows[j][2]])>>]

\* merge_form_spec(base, addition, dedupe_by_name=d) on form_spec values
\* whose rows need not be dicts: the outcome left in the variables.
MergeValue(addition, d, after) ==
    \E extra \in {_normalize_form_spec(addition)} :
        /\ addition_spec' = extra
        /\ dedupe_by_name' = d
        /\ IF RowsAreDicts(extra)
           THEN \E result \in {merge_form_spec(base_spec, RowValues(extra), d)} :
                    /\ merged_spec' = result.merged_spec
                    /\ summary' = result.summary
                    /\ pc' = after
           ELSE /\ merged_spec' = <<>>
                /\ summary' = Raised("AttributeError")
                /\ pc' = "raised"

\* merge_form_spec(base_spec, outline): the outline is the addition spec.
MergeOutline ==
    /\ pc = "outlined"
    /\ \E d \in BOOLEAN : MergeValue(OutlineAsFormSpec(returned), d, "merged")
    /\ UNCHANGED <<base_spec, langVars, orderVars, normVars, toolVars, cacheVars>>

\* merge_form_spec(base_spec, {"survey": {"rows": survey_rows},
\* "choices": {"rows": choices_rows}}): the caller names the sheets.
MergeOutlineSheets ==
    /\ pc = "outlined"
    /\ \E d \in BOOLEAN :
        MergeValue(<< <<"survey", Dict(<< <<"rows", Get(OutlineAsFormSpec(returned), "survey_rows")>> >>)>>,
                      <<"choices", Dict(<< <<"rows", Get(OutlineAsFormSpec(returned), "choices_rows")>> >>)>> >>,
                   d, "merged sheets")
    /\ UNCHANGED <<base_spec, langVars, orderVars, normVars, toolVars, cacheVars>>

NextOutline == DesignSurveyOutline \/ MergeOutline \/ MergeOutlineSheets

SpecOutline == InitOutline /\ [][NextOutline]_vars

(***************************************************************************)
(* Properties of the Outline Generator                                     *)
(***************************************************************************)

Outlined == pc # "start"

\* The names of the survey rows and of the choice rows, in order.
SurveyNames == [i \in DOMAIN returned.survey_rows |-> Get(returned.survey_rows[i], "name")]
ChoiceNames == [i \in DOMAIN returned.choices_rows |-> Get(returned.choices_rows[i], "name")]

\* The names C22 states, with or without the language selector.
StatedNames(selector) ==
    (IF selector THEN <<"form_language">> ELSE <<>>)
    \o (IF args.include_demographics
        THEN <<"respondent_name", "respondent_age", "respondent_gender">> ELSE <<>>)
    \o <<"intro_topic", "consent">>
    \o [i \in 1..Min(Len(args.objectives), 5) |-> "objective_" \o Char("12345", i)]
    \o <<"usage_frequency", "satisfaction_level", "open_feedback">>

\* The row objective_i asks about the i-th objective.
ObjectivesInOrder ==
    \A i \in 1..Min(Len(args.objectives), 5) :
        \E k \in DOMAIN returned.survey_rows :
            /\ Get(returned.survey_rows[k], "name") = "objective_" \o Char("12345", i)
            /\ \E c \in DOMAIN returned.survey_rows[k] :
                returned.survey_rows[k][c][2] = "Question about: " \o args.objectives[i]

\* C22 as stated: the survey rows are the selector iff the language list is
\* not empty, the demographics iff asked for, intro_topic, consent, one row
\* for each of the first five objectives, and the closing block.
C22_SelectorForAnyList ==
    Outlined => SurveyNames = StatedNames(languages # <<>>) /\ ObjectivesInOrder

\* C22: the survey rows are the selector iff some entry of the language list
\* is not blank, the demographics iff asked for, intro_topic, consent, one
\* row for each of the first five objectives in order, and the closing
\* block; an objective beyond the fifth has no row.
C22_OutlineStructure ==
    Outlined =>
        /\ SurveyNames = StatedNames(\E i \in DOMAIN languages : Strip(languages[i]) # "")
        /\ ObjectivesInOrder

\* Six objectives, demographics and a language after a blank entry gave
\* fourteen rows.
C22_Witness ==
    /\ pc = "outlined"
    /\ Len(args.objectives) = 6
    /\ args.include_demographics
    /\ languages = <<"", "fr">>
    /\ Len(returned.survey_rows) = 14
    /\ SurveyNames[11] = "objective_5"
    /\ SurveyNames[12] = "usage_frequency"

\* C23: merging what design_survey_outline returned into a base spec, as the
\* addition spec, raises nothing, appends the survey_rows to the base survey
\* sheet and the choices_rows to the base choices sheet.
C23_OutlineMerges ==
    pc \in {"merged", "raised"} =>
        /\ pc = "merged"
        /\ SheetOf(merged_spec, "survey").rows
             = SheetOf(base_spec, "survey").rows \o returned.survey_rows
        /\ ~dedupe_by_name =>
             SheetOf(merged_spec, "choices").rows
               = SheetOf(base_spec, "choices").rows \o returned.choices_rows

\* The languages are names or aliases of the language table.
FromLanguageTable ==
    \A i \in DOMAIN languages : HasKey(_LANGUAGE_CODE_MAP, Lower(languages[i]))

\* C29: for languages of the language table the choice rows have pairwise
\* distinct names, and a merge with dedupe_by_name into an empty choices
\* sheet skips none of them: every choice row is in the merged sheet.
C29_ChoiceNamesDistinct ==
    Outlined /\ FromLanguageTable =>
        /\ \A i, j \in DOMAIN ChoiceNames : i # j => ChoiceNames[i] # ChoiceNames[j]
        /\ pc = "merged sheets" /\ dedupe_by_name =>
            /\ Get(summary, "choices").skipped = <<>>
            /\ Range(returned.choices_rows) \subseteq Range(SheetOf(merged_spec, "choices").rows)

(***************************************************************************)
(* The resolver on its own headers (src/agent.py:135-163, 191-199)         *)
(***************************************************************************)

\* C27: for an input that is not blank, resolving the header that the
\* resolver produced returns the same name, code and header, and a column
\* "<field>::<header>" is left unchanged by _normalize_language_column_name.
C27_HeaderFixedPoint ==
    (pc = "resolved" /\ ~IsBlankInput(language)) =>
        /\ _normalize_language_tag(entry.header) = entry
        /\ \A f \in Range(user_facing_fields) :
            _normalize_language_column_name(f \o "::" \o entry.header)
                = f \o "::" \o entry.header

(***************************************************************************)
(* The sheets write_xlsform writes (src/agent.py:874-924)                  *)
(***************************************************************************)

\* C28: the sheets written to the workbook, and the keys of row_counts, are
\* the sheets of the normalized spec, whatever the letter case of their
\* names.
C28_EverySheetWritten ==
    Wrote =>
        /\ Keys(normalized_sheets) = Keys(CallerSheets)
        /\ Keys(returned.row_counts) = Keys(CallerSheets)
        /\ Keys(CallerSheets) \subseteq Range(returned.sheet_names)

(***************************************************************************)
(* Schema repair, collisions and bare values of the Column Normalizer      *)
(***************************************************************************)

\* No element of the sequence comes twice.
NoDuplicates(seq) == \A i, j \in DOMAIN seq : seq[i] = seq[j] => i = j

\* The columns of a normalizer result have no duplicates and hold every key
\* of every row of the result.
SchemaRepaired(result) ==
    /\ NoDuplicates(result.columns)
    /\ \A i \in DOMAIN result.rows :
        Keys(result.rows[i]) \subseteq Range(result.columns)

\* C24: after normalization the output column list has no duplicates and
\* every key of every output row is a member of the output column list, for
\* any declared columns and rows: rows with keys absent from the declared
\* columns and a sheet with zero rows included.
C24_SchemaRepair ==
    /\ Normalized => SchemaRepaired(once)
    /\ pc = "renormalized" => SchemaRepaired(twice)

\* A row holds a key that no declared column names after renaming, and the
\* normalized sheet has that key as a column and in a row.
C24_Witness ==
    /\ pc = "normalized"
    /\ \E key \in RowOnlyKeys(columns, sheet_rows) :
        /\ key \in Range(once.columns)
        /\ \E i \in DOMAIN once.rows : key \in Keys(once.rows[i])

\* The number of cells of the row under the key.
Cells(row, key) == Cardinality({p \in DOMAIN row : row[p][1] = key})

\* The collisions of input row i: the places p < q of two keys that rewrite
\* to the same normalized key, no third key of the row rewriting to it.
Collisions(i) ==
    LET row == sheet_rows[i]
        mapping == KeyMapping(columns, sheet_rows)
    IN {pq \in (DOMAIN row) \X (DOMAIN row) :
          /\ pq[1] < pq[2]
          /\ mapping[row[pq[1]][1]] = mapping[row[pq[2]][1]]
          /\ \A r \in DOMAIN row :
                mapping[row[r][1]] = mapping[row[pq[1]][1]] => r \in {pq[1], pq[2]}}

\* The normalized key of a collision of input row i.
CollisionKey(i, pq) == KeyMapping(columns, sheet_rows)[sheet_rows[i][pq[1]][1]]

\* The value the collision policy keeps: the second key's value if the first
\* is blank and the second is not, else the first key's value.
Kept(i, pq) ==
    LET first == sheet_rows[i][pq[1]][2]
        second == sheet_rows[i][pq[2]][2]
    IN IF Blank(first) /\ ~Blank(second) THEN second ELSE first

\* C25, as stated: when two keys of one input row rewrite to the same
\* normalized key, the output row holds that key exactly once, with the
\* non-blank value if exactly one of the two is non-blank and otherwise with
\* the value of the key that comes first in the row.
C25_CollisionPolicy ==
    pc = "normalized" =>
        \A i \in DOMAIN sheet_rows : \A pq \in Collisions(i) :
            /\ Cells(once.rows[i], CollisionKey(i, pq)) = 1
            /\ Get(once.rows[i], CollisionKey(i, pq)) = Kept(i, pq)

\* C25, amended: the row as renamed holds the value the policy keeps, and the
\* output row holds the normalized key exactly once, with that value unless
\* the value is blank and the key is a variant of a text field: then the cell
\* may hold instead a non-blank value that the renamed row has under the bare
\* field or under another variant of the field.
C25_CollisionKept ==
    pc = "normalized" =>
        \A i \in DOMAIN sheet_rows : \A pq \in Collisions(i) :
            LET key == CollisionKey(i, pq)
                out == Get(once.rows[i], key)
            IN /\ Cells(once.renamed[i], key) = 1
               /\ Get(once.renamed[i], key) = Kept(i, pq)
               /\ Cells(once.rows[i], key) = 1
               /\ \/ out = Kept(i, pq)
                  \/ /\ Blank(Kept(i, pq))
                     /\ FieldOf(key) \in Range(text_fields)
                     /\ ~Blank(out)
                     /\ \E p \in DOMAIN once.renamed[i] :
                           /\ once.renamed[i][p][1] # key
                           /\ \/ once.renamed[i][p][1] = FieldOf(key)
                              \/ FieldOf(once.renamed[i][p][1]) = FieldOf(key)
                           /\ once.renamed[i][p][2] = out

\* A row whose first colliding key is blank and whose second is not has been
\* normalized, and its output cell holds the second value.
C25_Witness ==
    /\ pc = "normalized"
    /\ \E i \in DOMAIN sheet_rows : \E pq \in Collisions(i) :
        /\ Blank(sheet_rows[i][pq[1]][2])
        /\ ~Blank(sheet_rows[i][pq[2]][2])
        /\ Get(once.rows[i], CollisionKey(i, pq)) = sheet_rows[i][pq[2]][2]

\* The language variants of the field that the normalized sheet has.
VariantsOf(field) ==
    {field \o "::" \o once.lang_headers[h] : h \in DOMAIN once.lang_headers}

\* C30: normalization loses no cell value when it deletes a bare column.  For
\* each of the eight user-facing fields, if a row holds a non-blank value
\* under the bare field key and at least one language is active, then after
\* normalization the row holds that value under at least one language variant
\* of the field, unless every variant already had its own non-blank value.
C30_BareValueKept ==
    (pc = "normalized" /\ once.lang_headers # <<>>) =>
        \A field \in Range(user_facing_fields) : \A i \in DOMAIN sheet_rows :
            ~Blank(Get(sheet_rows[i], field)) =>
                \/ \E key \in VariantsOf(field) :
                      Get(once.rows[i], key) = Get(sheet_rows[i], field)
                \/ \A key \in VariantsOf(field) : ~Blank(Get(once.renamed[i], key))

=============================================================================
